---- MODULE Spec2Model ----
(***************************************************************************)
(* QRCodeService (qr_service.py): colour resolution, logo embedding and    *)
(* the generate_qr_code pipeline.                                          *)
(*                                                                         *)
(* Conventions                                                             *)
(*   - a Python str is a sequence of one-character strings;                *)
(*   - a Python number is an integer counted in halves (Num(k) is the      *)
(*     integer k, Num(k) + 1 is k + 0.5), so that a channel that is not an *)
(*     integer can be told from one that is;                               *)
(*   - a ratio (logo_size) is an integer counted in hundredths;            *)
(*   - a call that raises yields a record with ok = FALSE.                 *)
(***************************************************************************)
EXTENDS Integers, Sequences, FiniteSets, TLC

VARIABLES
    service,    \* the module-level QRCodeService: box_size, border
    color,      \* argument of a _parse_color call
    parsed,     \* outcome of that call: pending, the value returned, or the raise
    embedArgs,  \* arguments of an _embed_logo call: qr_img, logo, logo_size
    embedded,   \* outcome of that call: pending, or the image returned
    req,        \* arguments of a generate_qr_code call, as passed by the caller
    pc,         \* position of that call: the stage about to run, or "done"
    stages,     \* the stages the call has entered so far, in order
    fill_color, \* local fill_color: the argument, then the parsed triple
    back_color, \* local back_color: the argument, then the parsed triple
    pattern,    \* local pattern, after the fallback
    error_correction, \* local error_correction, after fallback and escalation
    qr,         \* the qrcode.QRCode built
    img,        \* the image rendered, then embedded
    result,     \* what the call returned (or that it raised)
    calls,      \* the generate_qr_code calls running at once: arguments and frame of each
    b64Args,    \* a generate_qr_code_base64 call: its arguments, and the bytes save writes
    img_bytes,  \* what generate_qr_code gave generate_qr_code_base64
    encoded,    \* outcome of generate_qr_code_base64: pending, None or the text
    qr_history, \* the collection db.qr_history: the entries log_qr_generation inserted
    http,       \* the HTTP request at hand: its handler's position, then its response
    oid,        \* the ObjectIds handed out so far
    ads,        \* the collection db.ads
    settings,   \* the collection db.settings: the global_settings document
    adCalls,    \* the AdsService.create_ad calls running at once
    otps,       \* the collection db.otps: one document per email
    now         \* datetime.utcnow(), in minutes

colorVars == <<color, parsed>>
embedVars == <<embedArgs, embedded>>
callVars == <<req, pc, stages, fill_color, back_color, pattern, error_correction,
              qr, img, result>>
b64Vars == <<b64Args, img_bytes, encoded>>
historyVars == <<qr_history, http, oid>>
adsVars == <<ads, settings, adCalls>>
otpVars == <<otps, now>>
webVars == <<historyVars, adsVars, otpVars>>
vars == <<service, color, parsed, embedArgs, embedded, req, pc, stages, fill_color,
          back_color, pattern, error_correction, qr, img, result, calls, b64Args,
          img_bytes, encoded, qr_history, http, oid, ads, settings, adCalls, otps, now>>

-----------------------------------------------------------------------------
(* Bounds of the enumerated inputs *)

MaxStrLen == 7
MaxTupleLen == 4
MaxLogoDim == 2000
MaxBytesLen == 3

-----------------------------------------------------------------------------
(* Python values *)

Num(k) == 2 * k
IsInteger(n) == n % 2 = 0

Str(s) == [type |-> "str", s |-> s, t |-> <<>>]
Tuple(t) == [type |-> "tuple", s |-> <<>>, t |-> t]
List(t) == [type |-> "list", s |-> <<>>, t |-> t]
NoneValue == [type |-> "none", s |-> <<>>, t |-> <<>>]

Raise == [ok |-> FALSE, rgb |-> <<>>]
Return(rgb) == [ok |-> TRUE, rgb |-> rgb]

Pending == [done |-> FALSE, ok |-> FALSE, rgb |-> <<>>]
Outcome(r) == [done |-> TRUE, ok |-> r.ok, rgb |-> r.rgb]

HexDigits == {"0", "1", "2", "3", "4", "5", "6", "7", "8", "9",
              "a", "b", "c", "d", "e", "f", "A", "B", "C", "D", "E", "F"}

DigitValue(c) ==
    CASE c = "0" -> 0 [] c = "1" -> 1 [] c = "2" -> 2 [] c = "3" -> 3
      [] c = "4" -> 4 [] c = "5" -> 5 [] c = "6" -> 6 [] c = "7" -> 7
      [] c = "8" -> 8 [] c = "9" -> 9
      [] c \in {"a", "A"} -> 10 [] c \in {"b", "B"} -> 11
      [] c \in {"c", "C"} -> 12 [] c \in {"d", "D"} -> 13
      [] c \in {"e", "E"} -> 14 [] c \in {"f", "F"} -> 15

\* str.lower() on one character
LowerChar(c) ==
    CASE c = "A" -> "a" [] c = "B" -> "b" [] c = "C" -> "c" [] c = "D" -> "d"
      [] c = "E" -> "e" [] c = "F" -> "f" [] c = "H" -> "h" [] c = "I" -> "i"
      [] c = "K" -> "k" [] c = "L" -> "l" [] c = "T" -> "t" [] c = "W" -> "w"
      [] OTHER -> c

Lower(s) == [i \in 1..Len(s) |-> LowerChar(s[i])]

\* s[i:j] with 0-based i, j as Python slices them (clipped to the string)
Slice(s, i, j) ==
    LET hi == IF j < Len(s) THEN j ELSE Len(s)
    IN  IF i >= hi THEN <<>> ELSE SubSeq(s, i + 1, hi)

\* str.lstrip('#'): drops every leading '#'
RECURSIVE LStripHash(_)
LStripHash(s) ==
    IF s # <<>> /\ Head(s) = "#" THEN LStripHash(Tail(s)) ELSE s

RECURSIVE HexMagnitude(_)
HexMagnitude(s) ==
    IF s = <<>> THEN 0
    ELSE 16 * HexMagnitude(SubSeq(s, 1, Len(s) - 1)) + DigitValue(s[Len(s)])

\* int(s, 16): an optional sign, then at least one hex digit; anything else raises
Int16(s) ==
    LET signed == s # <<>> /\ Head(s) \in {"-", "+"}
        digits == IF signed THEN Tail(s) ELSE s
        wellFormed == digits # <<>> /\ \A i \in 1..Len(digits) : digits[i] \in HexDigits
    IN  IF ~wellFormed THEN [ok |-> FALSE, v |-> 0]
        ELSE [ok |-> TRUE,
              v |-> IF signed /\ Head(s) = "-" THEN 0 - HexMagnitude(digits)
                    ELSE HexMagnitude(digits)]

-----------------------------------------------------------------------------
(* QRCodeService.COLOR_MAP *)

COLOR_MAP ==
    { <<<<"b","l","a","c","k">>, <<0, 0, 0>>>>,
      <<<<"w","h","i","t","e">>, <<255, 255, 255>>>>,
      <<<<"r","e","d">>, <<255, 0, 0>>>>,
      <<<<"g","r","e","e","n">>, <<0, 128, 0>>>>,
      <<<<"b","l","u","e">>, <<0, 0, 255>>>>,
      <<<<"y","e","l","l","o","w">>, <<255, 255, 0>>>>,
      <<<<"c","y","a","n">>, <<0, 255, 255>>>>,
      <<<<"m","a","g","e","n","t","a">>, <<255, 0, 255>>>>,
      <<<<"o","r","a","n","g","e">>, <<255, 165, 0>>>>,
      <<<<"p","u","r","p","l","e">>, <<128, 0, 128>>>>,
      <<<<"p","i","n","k">>, <<255, 192, 203>>>>,
      <<<<"b","r","o","w","n">>, <<165, 42, 42>>>>,
      <<<<"g","r","a","y">>, <<128, 128, 128>>>>,
      <<<<"g","r","e","y">>, <<128, 128, 128>>>> }

ColorNames == {e[1] : e \in COLOR_MAP}
NamedColor(name) == (CHOOSE e \in COLOR_MAP : e[1] = name)[2]

-----------------------------------------------------------------------------
(* _hex_to_rgb and _parse_color *)

\* _hex_to_rgb without the #RGB shorthand
HexToRgbNoShorthand(hex_color) ==
    LET hex == LStripHash(hex_color)
        r == Int16(Slice(hex, 0, 2))
        g == Int16(Slice(hex, 2, 4))
        b == Int16(Slice(hex, 4, 6))
    IN  IF r.ok /\ g.ok /\ b.ok
        THEN Return(<<Num(r.v), Num(g.v), Num(b.v)>>)
        ELSE Raise

\* _hex_to_rgb: raises when one of the three slices is no hex number
HexToRgb(hex_color) ==
    LET stripped == LStripHash(hex_color)
        hex == IF Len(stripped) = 3
               THEN <<stripped[1], stripped[1], stripped[2], stripped[2],
                      stripped[3], stripped[3]>>
               ELSE stripped
        r == Int16(Slice(hex, 0, 2))
        g == Int16(Slice(hex, 2, 4))
        b == Int16(Slice(hex, 4, 6))
    IN  IF r.ok /\ g.ok /\ b.ok
        THEN Return(<<Num(r.v), Num(g.v), Num(b.v)>>)
        ELSE Raise

ParseColorStr(s) ==
    LET color_lower == Lower(s)
        hashed == IF s # <<>> /\ Head(s) = "#" THEN s ELSE <<"#">> \o s
    IN  IF color_lower \in ColorNames
        THEN LET rgb == NamedColor(color_lower)
             IN  Return(<<Num(rgb[1]), Num(rgb[2]), Num(rgb[3])>>)
        ELSE IF Len(hashed) \notin {4, 7} THEN Raise
        ELSE HexToRgb(hashed)

ParseColorSeq(t) ==
    IF \A i \in 1..Len(t) : Num(0) <= t[i] /\ t[i] <= Num(255)
    THEN Return(t)
    ELSE Raise

ParseColor(c) ==
    IF c.type = "str" THEN ParseColorStr(c.s)
    ELSE IF c.type \in {"list", "tuple"} /\ Len(c.t) = 3 THEN ParseColorSeq(c.t)
    ELSE Raise

-----------------------------------------------------------------------------
(* Images *)

\* QRCodeService.__init__ defaults, as the module-level qr_service is built
box_size == 10
border == 4

\* the instance routers/qr.py builds: QRCodeService()
QRCodeService == [box_size |-> box_size, border |-> border]

\* the largest standard symbol version
MaxVersion == 40

Min(a, b) == IF a <= b THEN a ELSE b
Max(a, b) == IF a >= b THEN a ELSE b
Abs(a) == IF a >= 0 THEN a ELSE 0 - a

\* modules per side of a version-v symbol, quiet zone included
ModuleCount(version) == 17 + 4 * version + 2 * border
PixelSize(version) == ModuleCount(version) * box_size

\* the quiet zone left out
SideNoBorder(q) == (17 + 4 * q.version) * q.box_size

\* pixels per side of the image of a symbol: (modules + 2 * border) * box_size
Side(q) == (17 + 4 * q.version + 2 * q.border) * q.box_size

\* An image: its size, its mode, what was drawn (base) and the overlay pasted on
\* it, if any (a sequence of zero or one rectangle).
NoOverlay == <<>>
Image(w, h, mode, base, overlay) ==
    [w |-> w, h |-> h, mode |-> mode, base |-> base, overlay |-> overlay]

\* what an image shows: the symbol drawn and the style it was drawn in
PlainBase == [version |-> 0, ec |-> "", data |-> 0, drawer |-> "", fill |-> <<>>, back |-> <<>>]
NoImage == Image(0, 0, "", PlainBase, NoOverlay)

\* Image.thumbnail((x, y)) of a w x h image (Pillow's preserve_aspect_ratio):
\* the size is kept if it fits, else reduced to fit with the nearer of the floor
\* and the ceiling of the scaled side, never below 1. When both are equally near,
\* the floating-point rounding of the two distances decides: the model leaves
\* that choice to tie ("floor" or "ceil"). Raises ZeroDivisionError when the box
\* is empty.
Nearer(f, c, df, dc, tie) ==
    IF df < dc THEN f ELSE IF dc < df THEN c ELSE IF tie = "floor" THEN f ELSE c

RoundAspectWidth(w, h, y, tie) ==
    LET f == (y * w) \div h
        c == IF (y * w) % h = 0 THEN f ELSE f + 1
    IN  Max(Nearer(f, c, Abs(y * w - f * h), Abs(y * w - c * h), tie), 1)

RoundAspectHeight(w, h, x, tie) ==
    LET f == (x * h) \div w
        c == IF (x * h) % w = 0 THEN f ELSE f + 1
    IN  Max(IF f = 0 THEN f
            ELSE Nearer(f, c, Abs(w * f - x * h) * c, Abs(w * c - x * h) * f, tie), 1)

\* a resize to the box whatever the size of the image
ResizeToBox(w, h, x, y, tie) ==
    IF y = 0 THEN [ok |-> FALSE, w |-> w, h |-> h]
    ELSE IF x * h >= w * y
         THEN [ok |-> TRUE, w |-> RoundAspectWidth(w, h, y, tie), h |-> y]
         ELSE [ok |-> TRUE, w |-> x, h |-> RoundAspectHeight(w, h, x, tie)]

Thumbnail(w, h, x, y, tie) ==
    IF x >= w /\ y >= h THEN [ok |-> TRUE, w |-> w, h |-> h]
    ELSE IF y = 0 THEN [ok |-> FALSE, w |-> w, h |-> h]
    ELSE IF x * h >= w * y
         THEN [ok |-> TRUE, w |-> RoundAspectWidth(w, h, y, tie), h |-> y]
         ELSE [ok |-> TRUE, w |-> x, h |-> RoundAspectHeight(w, h, x, tie)]

-----------------------------------------------------------------------------
(* _embed_logo *)

border_size == 10

\* logo_size used as requested
NoClamp(logo_size) == logo_size

\* logo_size clamped to [0.1, 1.0]
ClampLogoSizeToWhole(logo_size) == Max(10, Min(100, logo_size))

\* max(0.1, min(0.4, logo_size)), in hundredths
ClampLogoSize(logo_size) == Max(10, Min(40, logo_size))

\* int(min(qr_width, qr_height) * logo_size)
LogoMaxSize(qr_img, logo_size) == (Min(qr_img.w, qr_img.h) * logo_size) \div 100

\* the corner of the padded logo put at the centre of the image
LogoPosCorner(qr_img, bw, bh) == <<qr_img.w \div 2, qr_img.h \div 2>>

\* (qr_width - logo_with_border.width) // 2, (qr_height - logo_with_border.height) // 2
LogoPos(qr_img, bw, bh) == <<(qr_img.w - bw) \div 2, (qr_img.h - bh) \div 2>>

\* fault: where an unexpected exception is raised inside the try block
\* ("none", "Embed" before the conversion to RGBA, "Paste" after it);
\* tie: the rounding of thumbnail on a tie
EmbedLogo(qr_img, logo, logo_size, fault, tie) ==
    LET size == ClampLogoSize(logo_size)
        logo_max_size == LogoMaxSize(qr_img, size)
        thumb == Thumbnail(logo.w, logo.h, logo_max_size, logo_max_size, tie)
        bw == thumb.w + border_size * 2
        bh == thumb.h + border_size * 2
        logo_pos == LogoPos(qr_img, bw, bh)
        rgba == [qr_img EXCEPT !.mode = "RGBA"]
    IN  IF fault = "Embed" \/ ~thumb.ok THEN qr_img
        ELSE IF fault = "Paste" THEN rgba
        ELSE [rgba EXCEPT !.overlay =
                 << [x |-> logo_pos[1], y |-> logo_pos[2], w |-> bw, h |-> bh,
                     logo_w |-> thumb.w, logo_h |-> thumb.h, logo |-> logo.id] >>]

-----------------------------------------------------------------------------
(* Pixels: what paste does to one pixel, and what an image shows at a point *)

\* Pillow's 8-bit a * b / 255, rounded
MulDiv255(a, b) == LET tmp == a * b + 128 IN ((tmp \div 256) + tmp) \div 256

\* one band of out.paste(in, box, mask): in through the mask over out
Blend8(mask, in1, in2) == MulDiv255(in1, 255 - mask) + MulDiv255(in2, mask)

PastePixel(out, in, mask) == [i \in 1..Len(out) |-> Blend8(mask, out[i], in[i])]

\* convert('RGBA') of an RGB pixel
Opaque(rgb) == <<rgb[1], rgb[2], rgb[3], 255>>

\* a parsed colour (channels counted in halves) as a pixel
Rgb(t) == <<t[1] \div 2, t[2] \div 2, t[3] \div 2>>

WhitePixel == <<255, 255, 255, 255>>

\* the decoded logos of the model are of one colour each: opaque, half transparent
\* and fully transparent
LogoPixel(id) ==
    CASE id = "logo" -> <<200, 30, 30, 255>>
      [] id = "glass" -> <<200, 30, 30, 128>>
      [] id = "clear" -> <<0, 0, 0, 0>>

\* a paste that replaces the whole image
CoversAll(o, px, py) == TRUE

\* the box of qr_img.paste(logo_with_border, logo_pos, logo_with_border)
Covers(o, px, py) ==
    /\ o.x <= px /\ px < o.x + o.w
    /\ o.y <= py /\ py < o.y + o.h

\* the box of logo_with_border.paste(logo, (border_size, border_size), logo)
InLogo(o, px, py) ==
    /\ o.x + border_size <= px /\ px < o.x + border_size + o.logo_w
    /\ o.y + border_size <= py /\ py < o.y + border_size + o.logo_h

\* a pad left transparent
LogoOnClearPixel(o, px, py) ==
    IF InLogo(o, px, py) THEN LogoPixel(o.logo) ELSE <<0, 0, 0, 0>>

\* logo_with_border at a point of the image: white, with the logo pasted through
\* its own alpha band
LogoWithBorderPixel(o, px, py) ==
    IF InLogo(o, px, py)
    THEN PastePixel(WhitePixel, LogoPixel(o.logo), LogoPixel(o.logo)[4])
    ELSE WhitePixel

\* the alpha band thrown away
DropAlpha(p) == <<p[1], p[2], p[3]>>

\* rgb_img = Image.new('RGB', img.size, 'white'); rgb_img.paste(img, mask=img.split()[3])
PasteOnWhite(p) == PastePixel(<<255, 255, 255>>, <<p[1], p[2], p[3]>>, p[4])

\* the pixel an image shows at (px, py), where the symbol has a dark or a light
\* module. An RGB image with an overlay is one that Serialize flattened.
PixelAt(image, px, py, dark) ==
    LET under == IF dark THEN Rgb(image.base.fill) ELSE Rgb(image.base.back)
        o == image.overlay[1]
        rgba == IF image.overlay # NoOverlay /\ Covers(o, px, py)
                THEN LET layer == LogoWithBorderPixel(o, px, py)
                     IN  PastePixel(Opaque(under), layer, layer[4])
                ELSE Opaque(under)
    IN  IF image.mode = "RGBA" THEN rgba
        ELSE IF image.overlay # NoOverlay THEN PasteOnWhite(rgba)
        ELSE under

-----------------------------------------------------------------------------
(* generate_qr_code: tables and helpers *)

PATTERN_STYLES ==
    { <<"square", "SquareModuleDrawer">>, <<"rounded", "RoundedModuleDrawer">>,
      <<"dots", "CircleModuleDrawer">>, <<"vertical_bars", "VerticalBarsDrawer">>,
      <<"horizontal_bars", "HorizontalBarsDrawer">> }

PatternNames == {e[1] : e \in PATTERN_STYLES}

ERROR_CORRECTION_LEVELS == {"L", "M", "Q", "H"}

\* bytes a symbol holds in byte mode, versions 1..10 and 40 (ISO/IEC 18004)
TabulatedVersions == (1..10) \cup {MaxVersion}

CapacityL == <<17, 32, 53, 78, 106, 134, 154, 192, 230, 271>>
CapacityM == <<14, 26, 42, 62, 84, 106, 122, 152, 180, 213>>
CapacityQ == <<11, 20, 32, 46, 60, 74, 86, 108, 130, 151>>
CapacityH == <<7, 14, 24, 34, 44, 58, 64, 84, 98, 119>>

Capacity(version, ec) ==
    IF version = MaxVersion
    THEN CASE ec = "L" -> 2953 [] ec = "M" -> 2331 [] ec = "Q" -> 1663 [] ec = "H" -> 1273
    ELSE CASE ec = "L" -> CapacityL[version] [] ec = "M" -> CapacityM[version]
           [] ec = "Q" -> CapacityQ[version] [] ec = "H" -> CapacityH[version]

\* qr.make(fit=True) from version=1: the smallest version that holds the data, 0
\* for DataOverflowError. Exact for data of at most Capacity(10, ec) bytes or
\* of more than Capacity(40, ec) bytes, the lengths the model uses.
BestFit(length, ec) ==
    LET fitting == {v \in TabulatedVersions : Capacity(v, ec) >= length}
    IN  IF fitting = {} THEN 0
        ELSE CHOOSE v \in fitting : \A u \in fitting : v <= u

\* version 1 whatever the data
MakeVersion1(fit, length, ec) == IF Capacity(1, ec) >= length THEN 1 ELSE 0

\* qr.make(fit) on a QRCode created with version=1: with fit, the best fit; without,
\* version 1 itself or DataOverflowError
MakeVersion(fit, length, ec) ==
    IF fit THEN BestFit(length, ec)
    ELSE IF Capacity(1, ec) >= length THEN 1 ELSE 0

\* the payload check without isinstance
ValidUrlTruthy(url) == url.type # "none" /\ url.len > 0

\* `not url or not isinstance(url, str)` is false
ValidUrl(url) == url.type = "str" /\ url.len > 0

\* truth value of the logo argument
LogoGiven(logo) == logo.kind \in {"bad", "image"}

\* _decode_logo: the RGBA image, or None on any exception
DecodeLogo(logo) ==
    IF logo.kind = "image"
    THEN [ok |-> TRUE, logo |-> [id |-> logo.id, w |-> logo.w, h |-> logo.h]]
    ELSE [ok |-> FALSE, logo |-> [id |-> "", w |-> 0, h |-> 0]]

\* the pattern used as requested
NoPatternFallback(p) == p

\* `if pattern not in self.PATTERN_STYLES: pattern = 'square'`
NormalizePattern(p) == IF p \notin PatternNames THEN "square" ELSE p

\* the level used as requested
NoErrorCorrectionFallback(ec) == ec

\* `if error_correction not in self.ERROR_CORRECTION_LEVELS: error_correction = 'L'`
NormalizeErrorCorrection(ec) == IF ec \notin ERROR_CORRECTION_LEVELS THEN "L" ELSE ec

\* the level used as requested
NoEscalate(ec, logo) == ec

\* `if logo and error_correction == 'L': error_correction = 'H'`
Escalate(ec, logo) == IF LogoGiven(logo) /\ ec = "L" THEN "H" ELSE ec

\* self.PATTERN_STYLES[pattern]()
ModuleDrawer(p) ==
    IF p \in PatternNames
    THEN [ok |-> TRUE, drawer |-> (CHOOSE e \in PATTERN_STYLES : e[1] = p)[2]]
    ELSE [ok |-> FALSE, drawer |-> ""]

\* qr.make_image(...): back_color has three channels, so the image is RGB
MakeImage(q, drawer, fill, back) ==
    Image(Side(q), Side(q), "RGB",
          [version |-> q.version, ec |-> q.ec, data |-> q.data, drawer |-> drawer,
           fill |-> fill, back |-> back],
          NoOverlay)

\* str.upper() on the format names the model uses
Upper(format) ==
    CASE format \in {"png", "PNG"} -> "PNG"
      [] format \in {"jpeg", "JPEG"} -> "JPEG"
      [] format \in {"jpg", "JPG"} -> "JPG"
      [] OTHER -> format

\* the formats Image.save knows, among those the model uses
SaveFormats == {"PNG", "JPEG"}

\* Image.new('RGB', img.size, 'white') with img pasted through its alpha band
FlattenOnWhite(image) == [image EXCEPT !.mode = "RGB"]

\* image.save(img_buffer, format=format) and getvalue(): the bytes, or the raise
\* (an unknown format; an RGBA image as JPEG)
Save(image, format) ==
    IF Upper(format) \notin SaveFormats \/ (Upper(format) = "JPEG" /\ image.mode = "RGBA")
    THEN [ok |-> FALSE, bytes |-> <<>>]
    ELSE [ok |-> TRUE, bytes |-> <<[format |-> Upper(format), image |-> image]>>]

\* what generate_qr_code gives its caller
\* (how: "pending" until it ends, then "returned" or "raised")
NoResult == [how |-> "pending", ok |-> FALSE, bytes |-> <<>>]
NoneResult == [how |-> "returned", ok |-> FALSE, bytes |-> <<>>]
Bytes(b) == [how |-> "returned", ok |-> TRUE, bytes |-> b]
Propagated == [how |-> "raised", ok |-> FALSE, bytes |-> <<>>]

\* a handler for ValueError alone
HandlerValueErrorOnly(exc) == IF exc = "ValueError" THEN NoneResult ELSE Propagated

\* `except Exception as e: ... return None`
Handler(exc) == NoneResult

\* the colours resolved after the symbol is built
AfterBuildFirst(stage, logoGiven) ==
    CASE stage = "Validate" -> "NormalizeOptions"
      [] stage = "NormalizeOptions" -> "Build"
      [] stage = "Build" -> "ResolveColors"
      [] stage = "ResolveColors" -> "Render"
      [] stage = "Render" -> IF logoGiven THEN "Embed" ELSE "Serialize"
      [] stage = "Embed" -> "Serialize"
      [] stage = "Serialize" -> "done"

\* the order of the statements of generate_qr_code
After(stage, logoGiven) ==
    CASE stage = "Validate" -> "ResolveColors"
      [] stage = "ResolveColors" -> "NormalizeOptions"
      [] stage = "NormalizeOptions" -> "Build"
      [] stage = "Build" -> "Render"
      [] stage = "Render" -> IF logoGiven THEN "Embed" ELSE "Serialize"
      [] stage = "Embed" -> "Serialize"
      [] stage = "Serialize" -> "done"

NoQr == [version |-> 0, ec |-> "", data |-> 0, box_size |-> 0, border |-> 0]

-----------------------------------------------------------------------------
(* generate_qr_code: the stages, each from the call's frame to its next frame *)

Enter(f, r) ==
    [f EXCEPT !.stages = Append(f.stages, f.pc), !.pc = After(f.pc, LogoGiven(r.logo))]

Failed(f, exc) ==
    [f EXCEPT !.stages = Append(f.stages, f.pc), !.pc = "done", !.result = Handler(exc)]

ValidateStage(r, f) ==
    IF ~ValidUrl(r.url) THEN Failed(f, "ValueError") ELSE Enter(f, r)

\* a colour that does not parse drawn as black
ResolveColorsCoerce(r, f) ==
    LET fill == ParseColor(f.fill_color)
        back == ParseColor(f.back_color)
        black == <<Num(0), Num(0), Num(0)>>
    IN  [Enter(f, r) EXCEPT !.fill_color = Tuple(IF fill.ok THEN fill.rgb ELSE black),
                            !.back_color = Tuple(IF back.ok THEN back.rgb ELSE black)]

ResolveColorsStage(r, f) ==
    LET fill == ParseColor(f.fill_color)
        back == ParseColor(f.back_color)
    IN  IF ~fill.ok \/ ~back.ok THEN Failed(f, "ValueError")
        ELSE [Enter(f, r) EXCEPT !.fill_color = Tuple(fill.rgb),
                                 !.back_color = Tuple(back.rgb)]

\* the escalation decided before the fallback
NormalizeOptionsEscalateFirst(r, f) ==
    [Enter(f, r) EXCEPT
        !.pattern = NormalizePattern(f.pattern),
        !.error_correction = NormalizeErrorCorrection(Escalate(f.error_correction, r.logo))]

NormalizeOptionsStage(r, f) ==
    [Enter(f, r) EXCEPT
        !.pattern = NormalizePattern(f.pattern),
        !.error_correction = Escalate(NormalizeErrorCorrection(f.error_correction), r.logo)]

BuildStage(self, r, f) ==
    IF f.error_correction \notin ERROR_CORRECTION_LEVELS THEN Failed(f, "KeyError")
    ELSE LET version == MakeVersion(TRUE, r.url.len, f.error_correction)
         IN  IF version = 0 THEN Failed(f, "DataOverflowError")
             ELSE [Enter(f, r) EXCEPT
                      !.qr = [version |-> version, ec |-> f.error_correction,
                              data |-> r.url.len, box_size |-> self.box_size,
                              border |-> self.border]]

RenderStage(r, f) ==
    LET module_drawer == ModuleDrawer(f.pattern)
    IN  IF ~module_drawer.ok THEN Failed(f, "KeyError")
        ELSE IF r.fault = "Render" THEN Failed(f, "Exception")
        ELSE [Enter(f, r) EXCEPT
                 !.img = MakeImage(f.qr, module_drawer.drawer, f.fill_color.t,
                                   f.back_color.t)]

\* a logo that does not decode raised to the caller's handler
EmbedStageFatal(r, f) ==
    LET logo_img == DecodeLogo(r.logo)
    IN  IF ~logo_img.ok THEN Failed(f, "Exception")
        ELSE [Enter(f, r) EXCEPT
                 !.img = EmbedLogo(f.img, logo_img.logo, r.logo_size, r.fault, "floor")]

EmbedStage(r, f) ==
    LET logo_img == DecodeLogo(r.logo)
    IN  IF ~logo_img.ok THEN Enter(f, r)
        ELSE [Enter(f, r) EXCEPT
                 !.img = EmbedLogo(f.img, logo_img.logo, r.logo_size, r.fault, "floor")]

SerializeStage(r, f) ==
    LET flatten == Upper(r.format) \in {"JPEG", "JPG"} /\ f.img.mode = "RGBA"
        saved == Save(IF flatten THEN FlattenOnWhite(f.img) ELSE f.img, r.format)
    IN  IF r.fault = "Serialize" THEN Failed(f, "Exception")
        ELSE IF ~saved.ok THEN Failed(f, "KeyError")
        ELSE [Enter(f, r) EXCEPT !.result = Bytes(saved.bytes)]

InitFrame(r) ==
    [pc |-> "Validate", stages |-> <<>>, fill_color |-> r.fill_color,
     back_color |-> r.back_color, pattern |-> r.pattern,
     error_correction |-> r.error_correction, qr |-> NoQr, img |-> NoImage,
     result |-> NoResult]

StageStep(self, r, f) ==
    CASE f.pc = "Validate" -> ValidateStage(r, f)
      [] f.pc = "ResolveColors" -> ResolveColorsStage(r, f)
      [] f.pc = "NormalizeOptions" -> NormalizeOptionsStage(r, f)
      [] f.pc = "Build" -> BuildStage(self, r, f)
      [] f.pc = "Render" -> RenderStage(r, f)
      [] f.pc = "Embed" -> EmbedStage(r, f)
      [] f.pc = "Serialize" -> SerializeStage(r, f)

\* the whole call: the stages run one after the other until it returns
RECURSIVE RunToEnd(_, _, _)
RunToEnd(self, r, f) == IF f.pc = "done" THEN f ELSE RunToEnd(self, r, StageStep(self, r, f))

GenerateQrCode(self, r) == RunToEnd(self, r, InitFrame(r)).result

-----------------------------------------------------------------------------
(* A generate_qr_code call, stage by stage *)

Frame ==
    [pc |-> pc, stages |-> stages, fill_color |-> fill_color, back_color |-> back_color,
     pattern |-> pattern, error_correction |-> error_correction, qr |-> qr, img |-> img,
     result |-> result]

Holds(f) ==
    /\ pc = f.pc
    /\ stages = f.stages
    /\ fill_color = f.fill_color
    /\ back_color = f.back_color
    /\ pattern = f.pattern
    /\ error_correction = f.error_correction
    /\ qr = f.qr
    /\ img = f.img
    /\ result = f.result

Becomes(f) ==
    /\ pc' = f.pc
    /\ stages' = f.stages
    /\ fill_color' = f.fill_color
    /\ back_color' = f.back_color
    /\ pattern' = f.pattern
    /\ error_correction' = f.error_correction
    /\ qr' = f.qr
    /\ img' = f.img
    /\ result' = f.result

\* no _embed_logo call in progress
NotEmbedded == [done |-> FALSE, img |-> NoImage]
NoEmbedArgs == [qr_img |-> NoImage, logo |-> [id |-> "", w |-> 0, h |-> 0], logo_size |-> 0]

\* no concurrent calls, no generate_qr_code_base64 call
NoCalls == <<>>
NoBytes == [none |-> TRUE, bytes |-> <<>>]
NotEncoded == [done |-> FALSE, none |-> TRUE, text |-> <<>>]

\* no generate_qr_code call in progress
NoRequest ==
    [url |-> [type |-> "none", len |-> 0], format |-> "", fill_color |-> NoneValue,
     back_color |-> NoneValue, pattern |-> "", error_correction |-> "",
     logo |-> [kind |-> "none", id |-> "", w |-> 0, h |-> 0], logo_size |-> 0,
     fault |-> "none"]

NoCall ==
    /\ req = NoRequest
    /\ pc = "done"
    /\ stages = <<>>
    /\ fill_color = NoneValue
    /\ back_color = NoneValue
    /\ pattern = ""
    /\ error_correction = ""
    /\ qr = NoQr
    /\ img = NoImage
    /\ result = NoResult

NoBase64Args == [req |-> NoRequest, content |-> <<>>]

\* nothing else in progress
Idle ==
    /\ calls = NoCalls
    /\ b64Args = NoBase64Args
    /\ img_bytes = NoBytes
    /\ encoded = NotEncoded

\* the user a handler is given: None, or the user's document
Anonymous == [none |-> TRUE, id |-> ""]
User(id) == [none |-> FALSE, id |-> id]

\* no query parameter
NoQuery == [given |-> FALSE, value |-> ""]

\* no HTTP request at hand
NoHttp ==
    [endpoint |-> "", user |-> Anonymous, url |-> [type |-> "none", len |-> 0],
     query |-> NoQuery, customization |-> FALSE, has_logo |-> FALSE, truthy |-> FALSE,
     pc |-> "idle", status |-> 0, history_id |-> 0, body |-> {}, served |-> 0,
     email |-> "", otp |-> ""]

\* the create_ad calls that may run at once
AdCallers == {1, 2}

\* a create_ad call that has not started
NoAdCall == [pc |-> "idle", new_id |-> 0, placement |-> "", isActive |-> TRUE]

\* db.settings before anything wrote the global_settings document
NoSettings == [stored |-> FALSE, ads_enabled |-> TRUE]

\* empty collections, no HTTP request, no create_ad call
WebIdle ==
    /\ qr_history = {}
    /\ http = NoHttp
    /\ oid = 0
    /\ ads = {}
    /\ settings = NoSettings
    /\ adCalls = [c \in AdCallers |-> NoAdCall]
    /\ otps = {}
    /\ now = 0

\* the QR engine at rest, for the specifications of the HTTP handlers
EngineIdle ==
    /\ service = QRCodeService
    /\ color = NoneValue
    /\ parsed = Pending
    /\ embedArgs = NoEmbedArgs
    /\ embedded = NotEmbedded
    /\ NoCall
    /\ Idle

engineVars == <<service, colorVars, embedVars, callVars, calls, b64Vars>>

\* None, 5, '', and strings of 7, 18 and 3000 bytes
Urls ==
    { [type |-> "none", len |-> 0], [type |-> "int", len |-> 5], [type |-> "str", len |-> 0],
      [type |-> "str", len |-> 7], [type |-> "str", len |-> 18],
      [type |-> "str", len |-> 3000] }

FillColors ==
    { Str(<<"b","l","a","c","k">>), Str(<<"#","1","2">>), Str(<<"#","#","1","2","3","4","5">>) }

BackColors == { Str(<<"W","h","i","t","e">>), Tuple(<<Num(256), Num(0), Num(0)>>) }

Patterns == PatternNames \cup {"hexagon", ""}

ErrorCorrections == ERROR_CORRECTION_LEVELS \cup {"X", "h"}

\* None, '', a string that does not decode, and three 300 x 200 images
NoLogo == [kind |-> "none", id |-> "", w |-> 0, h |-> 0]
LogoArgs ==
    { NoLogo, [kind |-> "empty", id |-> "", w |-> 0, h |-> 0],
      [kind |-> "bad", id |-> "", w |-> 0, h |-> 0],
      [kind |-> "image", id |-> "logo", w |-> 300, h |-> 200],
      [kind |-> "image", id |-> "glass", w |-> 300, h |-> 200],
      [kind |-> "image", id |-> "clear", w |-> 300, h |-> 200] }

Formats == {"PNG", "jpeg", "JPG"}

\* where the libraries raise an unexpected exception, if anywhere
Faults == {"none", "Render", "Embed", "Paste", "Serialize"}

Requests ==
    { r \in [url : Urls, format : Formats, fill_color : FillColors, back_color : BackColors,
             pattern : Patterns, error_correction : ErrorCorrections, logo : LogoArgs,
             logo_size : {30, 90}, fault : Faults] :
        \* logo_size and the faults of _embed_logo matter only with a decodable logo
        /\ r.logo.kind # "image" => (r.logo_size = 30 /\ r.fault \notin {"Embed", "Paste"})
        \* the transparent logos are tried at the default size, with no fault
        /\ r.logo.id \in {"glass", "clear"} => (r.logo_size = 30 /\ r.fault = "none") }

Init ==
    /\ service = QRCodeService
    /\ WebIdle
    /\ req \in Requests
    /\ Holds(InitFrame(req))
    /\ color = NoneValue
    /\ parsed = Pending
    /\ embedArgs = NoEmbedArgs
    /\ embedded = NotEmbedded
    /\ Idle

Validate ==
    /\ pc = "Validate"
    /\ Becomes(ValidateStage(req, Frame))
    /\ UNCHANGED <<webVars, service, req, colorVars, embedVars, calls, b64Vars>>

ResolveColors ==
    /\ pc = "ResolveColors"
    /\ Becomes(ResolveColorsStage(req, Frame))
    /\ UNCHANGED <<webVars, service, req, colorVars, embedVars, calls, b64Vars>>

NormalizeOptions ==
    /\ pc = "NormalizeOptions"
    /\ Becomes(NormalizeOptionsStage(req, Frame))
    /\ UNCHANGED <<webVars, service, req, colorVars, embedVars, calls, b64Vars>>

Build ==
    /\ pc = "Build"
    /\ Becomes(BuildStage(service, req, Frame))
    /\ UNCHANGED <<webVars, service, req, colorVars, embedVars, calls, b64Vars>>

Render ==
    /\ pc = "Render"
    /\ Becomes(RenderStage(req, Frame))
    /\ UNCHANGED <<webVars, service, req, colorVars, embedVars, calls, b64Vars>>

Embed ==
    /\ pc = "Embed"
    /\ Becomes(EmbedStage(req, Frame))
    /\ UNCHANGED <<webVars, service, req, colorVars, embedVars, calls, b64Vars>>

Serialize ==
    /\ pc = "Serialize"
    /\ Becomes(SerializeStage(req, Frame))
    /\ UNCHANGED <<webVars, service, req, colorVars, embedVars, calls, b64Vars>>

Next ==
    \/ Validate
    \/ ResolveColors
    \/ NormalizeOptions
    \/ Build
    \/ Render
    \/ Embed
    \/ Serialize

Spec == Init /\ [][Next]_vars

-----------------------------------------------------------------------------
(* A single _embed_logo call on a rendered symbol *)

LogoDims == {1, 7, 29, 30, 116, 117, 300, 741, MaxLogoDim}
LogoSizes == {0 - 50, 5, 10, 25, 30, 40, 41, 90, 250}
Logos == {[id |-> "logo", w |-> w, h |-> h] : w \in LogoDims, h \in LogoDims}

\* black on white, and yellow on navy
ColorPairs ==
    { [fill |-> <<Num(0), Num(0), Num(0)>>, back |-> <<Num(255), Num(255), Num(255)>>],
      [fill |-> <<Num(255), Num(255), Num(0)>>, back |-> <<Num(0), Num(0), Num(128)>>] }

RenderedImages ==
    {Image(PixelSize(v), PixelSize(v), "RGB",
           [PlainBase EXCEPT !.version = v, !.fill = c.fill, !.back = c.back],
           NoOverlay) : v \in 1..MaxVersion, c \in ColorPairs}


InitEmbed ==
    /\ service = QRCodeService
    /\ WebIdle
    /\ embedArgs \in [qr_img : RenderedImages, logo : Logos, logo_size : LogoSizes]
    /\ embedded = NotEmbedded
    /\ color = NoneValue
    /\ parsed = Pending
    /\ NoCall
    /\ Idle

EmbedLogoCall ==
    /\ ~embedded.done
    /\ \E tie \in {"floor", "ceil"} :
          embedded' = [done |-> TRUE,
                       img |-> EmbedLogo(embedArgs.qr_img, embedArgs.logo,
                                         embedArgs.logo_size, "none", tie)]
    /\ UNCHANGED <<webVars, service, embedArgs, colorVars, callVars, calls, b64Vars>>

NextEmbed == EmbedLogoCall

SpecEmbed == InitEmbed /\ [][NextEmbed]_vars

-----------------------------------------------------------------------------
(* Inputs of the colour resolver *)

Alphabet == {"#", "1", "f", "-"}

\* the sequences of length n over S
SeqsOfLen(S, n) == [1..n -> S]

NamedExamples ==
    ColorNames \cup { <<"W","h","i","t","e">>, <<"W","H","I","T","E">>,
                      <<"B","L","A","C","K">>, <<"#","w","h","i","t","e">> }

HexExamples ==
    { <<"#","F","F","F">>, <<"#","0","0","8","0","0","0">>, <<"a","B","c">>,
      <<"1","2","3","4","5","6">>, <<"#","1","2">>, <<"#","g","g","g">>,
      <<"f","f","f","f","f","f","f","f">> }

\* -1, -0.5, 0, 0.5, 255, 255.5, 256
ChannelValues == {Num(0 - 1), Num(0) - 1, Num(0), Num(0) + 1, Num(255), Num(255) + 1, Num(256)}

\* every string of at most MaxStrLen characters of Alphabet, the examples, every
\* tuple and list of at most MaxTupleLen channels, and None
IsColorInput(c) ==
    \/ \E n \in 0..MaxStrLen : \E s \in SeqsOfLen(Alphabet, n) : c = Str(s)
    \/ \E s \in NamedExamples \cup HexExamples : c = Str(s)
    \/ \E n \in 0..MaxTupleLen : \E t \in SeqsOfLen(ChannelValues, n) :
          c = Tuple(t) \/ c = List(t)
    \/ c = NoneValue

-----------------------------------------------------------------------------
(* A single _parse_color call *)

InitColor ==
    /\ service = QRCodeService
    /\ WebIdle
    /\ IsColorInput(color)
    /\ parsed = Pending
    /\ embedArgs = NoEmbedArgs
    /\ embedded = NotEmbedded
    /\ NoCall
    /\ Idle

ParseColorCall ==
    /\ parsed = Pending
    /\ parsed' = Outcome(ParseColor(color))
    /\ UNCHANGED <<webVars, service, color, embedVars, callVars, calls, b64Vars>>

NextColor == ParseColorCall

SpecColor == InitColor /\ [][NextColor]_vars

-----------------------------------------------------------------------------
(* generate_qr_code_base64 *)

\* the base64 alphabet
B64Chars ==
    << "A", "B", "C", "D", "E", "F", "G", "H", "I", "J", "K", "L", "M", "N", "O", "P",
       "Q", "R", "S", "T", "U", "V", "W", "X", "Y", "Z", "a", "b", "c", "d", "e", "f",
       "g", "h", "i", "j", "k", "l", "m", "n", "o", "p", "q", "r", "s", "t", "u", "v",
       "w", "x", "y", "z", "0", "1", "2", "3", "4", "5", "6", "7", "8", "9", "+", "/" >>

\* the character of a 6-bit value
B64Char(sextet) == B64Chars[sextet + 1]

\* base64.b64encode(b).decode('utf-8'): 3 bytes give 4 characters, the last 1 or 2
\* bytes give 2 or 3 characters padded with '=' to 4
RECURSIVE B64Encode(_)
B64Encode(b) ==
    IF b = <<>> THEN <<>>
    ELSE IF Len(b) = 1
    THEN LET n == b[1] * 16
         IN  <<B64Char(n \div 64), B64Char(n % 64), "=", "=">>
    ELSE IF Len(b) = 2
    THEN LET n == (b[1] * 256 + b[2]) * 4
         IN  <<B64Char(n \div 4096), B64Char((n \div 64) % 64), B64Char(n % 64), "=">>
    ELSE LET n == (b[1] * 256 + b[2]) * 256 + b[3]
         IN  <<B64Char(n \div 262144), B64Char((n \div 4096) % 64),
               B64Char((n \div 64) % 64), B64Char(n % 64)>>
             \o B64Encode(SubSeq(b, 4, Len(b)))

\* the text returned without its padding
Base64TextUnpadded(b) == SelectSeq(B64Encode(b), LAMBDA ch : ch # "=")

\* `if img_bytes: return base64.b64encode(img_bytes).decode('utf-8')` / `return None`
Base64Text(b) == B64Encode(b)

\* values of the bytes of a file
ByteValues == {0, 77, 128, 255}

\* '' and a 7-byte payload, as PNG and as JPG, on white and on a colour that does
\* not parse
Base64Requests ==
    { r \in Requests :
        /\ r.url.type = "str" /\ r.url.len \in {0, 7}
        /\ r.format \in {"PNG", "JPG"}
        /\ r.fill_color = Str(<<"b","l","a","c","k">>)
        /\ r.pattern = "square"
        /\ r.error_correction = "M"
        /\ r.logo.kind = "none"
        /\ r.fault = "none" }

InitBase64 ==
    /\ service = QRCodeService
    /\ WebIdle
    /\ \E r \in Base64Requests : \E n \in 1..MaxBytesLen : \E content \in [1..n -> ByteValues] :
          b64Args = [req |-> r, content |-> content]
    /\ img_bytes = NoBytes
    /\ encoded = NotEncoded
    /\ calls = NoCalls
    /\ color = NoneValue
    /\ parsed = Pending
    /\ embedArgs = NoEmbedArgs
    /\ embedded = NotEmbedded
    /\ NoCall

\* the whole call: generate_qr_code with the same arguments, then the encoding
GenerateQrCodeBase64 ==
    /\ ~encoded.done
    /\ LET returned == GenerateQrCode(service, b64Args.req)
           bytes == IF returned.ok THEN b64Args.content ELSE <<>>
       IN  /\ img_bytes' = [none |-> ~returned.ok, bytes |-> bytes]
           /\ encoded' = IF returned.ok /\ bytes # <<>>
                         THEN [done |-> TRUE, none |-> FALSE, text |-> Base64Text(bytes)]
                         ELSE [done |-> TRUE, none |-> TRUE, text |-> <<>>]
    /\ UNCHANGED <<webVars, service, b64Args, colorVars, embedVars, callVars, calls>>

NextBase64 == GenerateQrCodeBase64

SpecBase64 == InitBase64 /\ [][NextBase64]_vars

-----------------------------------------------------------------------------
(* generate_qr_code calls running at once on the module-level qr_service *)

Callers == {1, 2}

\* '' and an 18-byte payload, as PNG and as JPEG, without and with a logo
ConcurrentRequests ==
    { r \in Requests :
        /\ r.url.type = "str" /\ r.url.len \in {0, 18}
        /\ r.format \in {"PNG", "jpeg"}
        /\ r.fill_color = Str(<<"b","l","a","c","k">>)
        /\ r.back_color = Str(<<"W","h","i","t","e">>)
        /\ r.pattern = "dots"
        /\ r.error_correction = "L"
        /\ r.logo.id \in {"", "logo"}
        /\ r.logo.kind \in {"none", "image"}
        /\ r.logo_size = 30
        /\ r.fault = "none" }

InitConcurrent ==
    /\ service = QRCodeService
    /\ WebIdle
    /\ calls \in [Callers -> {[req |-> r, f |-> InitFrame(r)] : r \in ConcurrentRequests}]
    /\ color = NoneValue
    /\ parsed = Pending
    /\ embedArgs = NoEmbedArgs
    /\ embedded = NotEmbedded
    /\ NoCall
    /\ b64Args = NoBase64Args
    /\ img_bytes = NoBytes
    /\ encoded = NotEncoded

\* a stage that leaves self.box_size one larger once it has built its symbol
StepResizing(c) ==
    /\ calls[c].f.pc # "done"
    /\ calls' = [calls EXCEPT ![c].f = StageStep(service, calls[c].req, calls[c].f)]
    /\ service' = [service EXCEPT !.box_size = IF calls[c].f.pc = "Build" THEN @ + 1 ELSE @]
    /\ UNCHANGED <<webVars, colorVars, embedVars, callVars, b64Vars>>

\* the image kept on the service, where every call reads and writes it
StepOnSharedImage(c) ==
    /\ calls[c].f.pc # "done"
    /\ LET stepped == StageStep(service, calls[c].req, calls[c].f)
       IN  calls' = [d \in Callers |->
                        IF d = c THEN [calls[d] EXCEPT !.f = stepped]
                        ELSE [calls[d] EXCEPT !.f.img = stepped.img]]
    /\ UNCHANGED <<webVars, service, colorVars, embedVars, callVars, b64Vars>>

\* caller c runs its next stage: it reads self and its own frame, writes its own frame
Step(c) ==
    /\ calls[c].f.pc # "done"
    /\ calls' = [calls EXCEPT ![c].f = StageStep(service, calls[c].req, calls[c].f)]
    /\ UNCHANGED <<webVars, service, colorVars, embedVars, callVars, b64Vars>>

NextConcurrent == \E c \in Callers : Step(c)

SpecConcurrent == InitConcurrent /\ [][NextConcurrent]_vars

-----------------------------------------------------------------------------
(* The generate endpoints and the history: routers/qr.py,                  *)
(* services/qr_history_service.py                                          *)

\* requests handled in one run
MaxServed == 3

Endpoints == {"POST /generate", "POST /generate/image", "GET /generate/{url}"}

\* what get_current_user_optional hands the handler: None, or a user
Users == {Anonymous, User("u1")}

\* what get_current_user hands DELETE /history/{history_id}: the user who
\* generated, or another one
Deleters == {User("u1"), User("u2")}

\* the url (scheme: it starts with 'http://' or 'https://'), whether the body
\* carries a customization, and the fill colour and the logo when it does
HttpBodies ==
    { b \in [url : {[type |-> "str", len |-> 0], [type |-> "str", len |-> 18]},
             scheme : BOOLEAN, customization : BOOLEAN,
             fill_color : {Str(<<"b","l","a","c","k">>), Str(<<"#","1","2">>)},
             logo : {NoLogo, [kind |-> "image", id |-> "logo", w |-> 300, h |-> 200]}] :
        /\ b.scheme => b.url.len >= 18
        /\ ~b.customization => (b.fill_color = Str(<<"b","l","a","c","k">>) /\ b.logo = NoLogo)
        \* the logo is tried with one url and one colour
        /\ b.logo # NoLogo =>
              (b.url.len = 18 /\ ~b.scheme /\ b.fill_color = Str(<<"b","l","a","c","k">>)) }

\* generate_qr_code_get: 'https://' is put before a url with no scheme
PrefixedUrl(endpoint, b) ==
    IF endpoint = "GET /generate/{url}" /\ ~b.scheme
    THEN [type |-> "str", len |-> b.url.len + 8]
    ELSE b.url

\* the arguments each handler passes to the service (the GET handler passes
\* neither logo nor logo_size)
ServiceArgs(endpoint, b) ==
    [url |-> PrefixedUrl(endpoint, b), format |-> "PNG", fill_color |-> b.fill_color,
     back_color |-> Str(<<"w","h","i","t","e">>), pattern |-> "square",
     error_correction |-> "L",
     logo |-> IF endpoint = "GET /generate/{url}" THEN NoLogo ELSE b.logo,
     logo_size |-> 30, fault |-> "none"]

\* `if qr_code_bytes:` / `if qr_code_base64:` (the base64 text of bytes is empty
\* exactly when the bytes are)
Truthy(returned) == returned.ok /\ returned.bytes # <<>>

\* the customization argument of log_qr_generation is truthy: the POST handlers
\* pass the dict only when the body has a customization, the GET handler always
CustomizationLogged(endpoint, b) == endpoint = "GET /generate/{url}" \/ b.customization

\* a handler that logs whoever asked
AfterGenerationLogAnonymous(truthy, user) ==
    IF truthy THEN "log" ELSE "responded"

\* where a generate handler goes once the service returned: to the awaited
\* log_qr_generation (`if result: if user:`), or to its response
AfterGeneration(truthy, user) ==
    IF truthy /\ ~user.none THEN "log" ELSE "responded"

\* the response once nothing is left to await: the result, or HTTPException(500)
StatusAfterGeneration(truthy) == IF truthy THEN 200 ELSE 500

\* log_entry of log_qr_generation: the keys of the document, and what the model
\* keeps of their values
LogEntry(history_id, url, user_id, customization, has_logo, base_url) ==
    [_id |-> history_id, url |-> url, user_id |-> user_id,
     has_logo |-> customization /\ has_logo,
     keys |-> {"_id", "url", "user_id", "timestamp", "type"}
              \cup (IF customization THEN {"customization"} ELSE {})
              \cup (IF base_url THEN {"qr_image_url"} ELSE {})]

\* qr_history.find_one({"_id": ObjectId(history_id)})
FindHistory(collection, history_id) == {e \in collection : e._id = history_id}

\* get_history_image: 404 `if not item or "qr_code" not in item`
HistoryImageStatus(collection, history_id) ==
    IF \E e \in FindHistory(collection, history_id) : "qr_code" \in e.keys
    THEN 200
    ELSE 404

InitHistory ==
    /\ EngineIdle
    /\ WebIdle

CanServe == http.pc \in {"idle", "responded"} /\ http.served < MaxServed

\* a generate handler, up to its await or to its response
GenerateRequest ==
    /\ CanServe
    /\ \E endpoint \in Endpoints : \E b \in HttpBodies :
          LET truthy == Truthy(GenerateQrCode(service, ServiceArgs(endpoint, b)))
          IN  \E user \in Users :
                LET next == AfterGeneration(truthy, user)
                IN  http' = [endpoint |-> endpoint, user |-> user,
                             url |-> PrefixedUrl(endpoint, b), query |-> NoQuery,
                             customization |-> CustomizationLogged(endpoint, b),
                             has_logo |-> ServiceArgs(endpoint, b).logo # NoLogo,
                             truthy |-> truthy, pc |-> next,
                             status |-> IF next = "responded"
                                        THEN StatusAfterGeneration(truthy) ELSE 0,
                             history_id |-> 0, body |-> {}, served |-> http.served + 1,
                             email |-> "", otp |-> ""]
    /\ UNCHANGED <<qr_history, oid, adsVars, otpVars, engineVars>>

\* await log_qr_generation(url, user["id"], customization, base_url), then the
\* response
LogQrGeneration ==
    /\ http.pc = "log"
    /\ oid' = oid + 1
    /\ qr_history' = qr_history \cup
          {LogEntry(oid + 1, http.url, http.user.id, http.customization, http.has_logo, TRUE)}
    /\ http' = [http EXCEPT !.pc = "responded", !.status = StatusAfterGeneration(http.truthy),
                            !.history_id = oid + 1]
    /\ UNCHANGED <<adsVars, otpVars, engineVars>>

\* GET /history/{history_id}/image
GetHistoryImage ==
    /\ CanServe
    /\ \E history_id \in 1..MaxServed :
          http' = [NoHttp EXCEPT !.endpoint = "GET /history/{history_id}/image",
                                 !.pc = "responded", !.history_id = history_id,
                                 !.status = HistoryImageStatus(qr_history, history_id),
                                 !.served = http.served + 1]
    /\ UNCHANGED <<qr_history, oid, adsVars, otpVars, engineVars>>

\* DELETE /history/{history_id}: delete_one({"_id": ..., "user_id": user["id"]})
DeleteHistory ==
    /\ CanServe
    /\ \E history_id \in 1..MaxServed : \E user \in Deleters :
          LET found == {e \in FindHistory(qr_history, history_id) : e.user_id = user.id}
          IN  /\ qr_history' = qr_history \ found
              /\ http' = [NoHttp EXCEPT !.endpoint = "DELETE /history/{history_id}",
                                        !.user = user, !.pc = "responded",
                                        !.history_id = history_id,
                                        !.status = IF found # {} THEN 200 ELSE 404,
                                        !.served = http.served + 1]
    /\ UNCHANGED <<oid, adsVars, otpVars, engineVars>>

NextHistory == GenerateRequest \/ LogQrGeneration \/ GetHistoryImage \/ DeleteHistory

SpecHistory == InitHistory /\ [][NextHistory]_vars

-----------------------------------------------------------------------------
(* The advertisements: routers/qr.py, routers/admin.py,                    *)
(* services/ads_service.py, services/admin_service.py                      *)

\* create_ad calls in one run
MaxAds == 3

\* two of VALID_PLACEMENTS
Placements == {"top-wide", "left-1"}

\* the placement query of GET /ads: absent, '', a placement, or something else
PlacementQueries == {NoQuery, [given |-> TRUE, value |-> ""],
                     [given |-> TRUE, value |-> "top-wide"],
                     [given |-> TRUE, value |-> "left-1"],
                     [given |-> TRUE, value |-> "nowhere"]}

\* serialize_ad, with the fields the model keeps
SerializeAd(ad) == [id |-> ad.id, placement |-> ad.placement, isActive |-> ad.isActive]

\* ads.find_one(sort=[("id", -1)]) and new_id
NewId(collection) ==
    IF collection = {} THEN 1
    ELSE (CHOOSE a \in collection : \A other \in collection : other.id <= a.id).id + 1

\* the document a filter {"id": ad_id} meets first (insertion order)
FindOneAd(collection, ad_id) ==
    LET found == {a \in collection : a.id = ad_id}
    IN  IF found = {} THEN {}
        ELSE {CHOOSE a \in found : \A other \in found : a._id <= other._id}

\* ads.update_one({"id": ad_id}, {"$set": update_data})
UpdateOneAd(collection, ad_id, update_data) ==
    LET found == FindOneAd(collection, ad_id)
    IN  (collection \ found) \cup
        { [a EXCEPT !.placement = IF update_data.has_placement THEN update_data.placement
                                  ELSE @,
                    !.isActive = IF update_data.has_isActive THEN update_data.isActive
                                 ELSE @] : a \in found }

\* ads.delete_one({"id": ad_id})
DeleteOneAd(collection, ad_id) == collection \ FindOneAd(collection, ad_id)

\* the update_data of PUT /ads/{ad_id}: placement when truthy, isActive when not None
UpdateDatas ==
    { u \in [has_placement : BOOLEAN, placement : Placements \cup {""},
             has_isActive : BOOLEAN, isActive : BOOLEAN] :
        /\ u.has_placement <=> u.placement # ""
        /\ ~u.has_isActive => u.isActive
        /\ u.has_placement \/ u.has_isActive }

StatusUpdate(isActive) ==
    [has_placement |-> FALSE, placement |-> "", has_isActive |-> TRUE, isActive |-> isActive]

\* AdsService.get_all_ads: the query holds the placement when it is truthy;
\* only_active is not read
GetAllAds(collection, placement, only_active) ==
    { a \in collection :
        (placement.given /\ placement.value # "") => a.placement = placement.value }

\* AdminService.get_settings: the stored document, or the default it inserts
GetSettings(stored) == IF stored.stored THEN stored ELSE [stored |-> TRUE, ads_enabled |-> TRUE]

\* AdminService.is_ads_enabled
IsAdsEnabled(stored) == GetSettings(stored).ads_enabled

\* the response of an ads handler (query: the placement asked of GET /ads)
AdsResponse(endpoint, query, status, body) ==
    [NoHttp EXCEPT !.endpoint = endpoint, !.query = query, !.pc = "responded",
                   !.status = status, !.body = body]

InitAds ==
    /\ EngineIdle
    /\ WebIdle

\* create_ad, up to its first await: POST /ads checks the placement, then
\* AdsService.create_ad asks for the ad with the highest id and computes new_id
CreateAdFind(c) ==
    /\ adCalls[c].pc = "idle"
    /\ oid + Cardinality({d \in AdCallers : adCalls[d].pc = "insert"}) < MaxAds
    /\ \E placement \in Placements \cup {"nowhere"} : \E isActive \in BOOLEAN :
          IF placement \notin Placements
          THEN /\ http' = AdsResponse("POST /ads", NoQuery, 400, {})
               /\ UNCHANGED adCalls
          ELSE /\ adCalls' = [adCalls EXCEPT ![c] =
                                [pc |-> "insert", new_id |-> NewId(ads),
                                 placement |-> placement, isActive |-> isActive]]
               /\ UNCHANGED http
    /\ UNCHANGED <<qr_history, oid, ads, settings, otpVars, engineVars>>

\* create_ad, from ads.insert_one(ad_data) to the response
CreateAdInsert(c) ==
    /\ adCalls[c].pc = "insert"
    /\ LET ad == [_id |-> oid + 1, id |-> adCalls[c].new_id,
                  placement |-> adCalls[c].placement, isActive |-> adCalls[c].isActive]
       IN  /\ ads' = ads \cup {ad}
           /\ http' = AdsResponse("POST /ads", NoQuery, 200, {SerializeAd(ad)})
    /\ oid' = oid + 1
    /\ adCalls' = [adCalls EXCEPT ![c] = NoAdCall]
    /\ UNCHANGED <<qr_history, settings, otpVars, engineVars>>

\* an ads handler that finds the ad, then applies update_one
UpdateWith(endpoint, ad_id, update_data) ==
    IF FindOneAd(ads, ad_id) = {}
    THEN /\ http' = AdsResponse(endpoint, NoQuery, 404, {})
         /\ UNCHANGED ads
    ELSE /\ ads' = UpdateOneAd(ads, ad_id, update_data)
         /\ http' = AdsResponse(endpoint, NoQuery, 200,
                                {SerializeAd(a) : a \in FindOneAd(ads', ad_id)})

\* PUT /ads/{ad_id}
UpdateAd ==
    /\ \E ad_id \in 1..MaxAds : \E update_data \in UpdateDatas :
          UpdateWith("PUT /ads/{ad_id}", ad_id, update_data)
    /\ UNCHANGED <<qr_history, oid, settings, adCalls, otpVars, engineVars>>

\* POST /ads/{ad_id}/status
SetAdStatus ==
    /\ \E ad_id \in 1..MaxAds : \E isActive \in BOOLEAN :
          UpdateWith("POST /ads/{ad_id}/status", ad_id, StatusUpdate(isActive))
    /\ UNCHANGED <<qr_history, oid, settings, adCalls, otpVars, engineVars>>

\* POST /ads/{ad_id}/toggle: new_status = not ad.get("isActive", True)
ToggleAdStatus ==
    /\ \E ad_id \in 1..MaxAds :
          LET found == FindOneAd(ads, ad_id)
              new_status == \A a \in found : ~a.isActive
          IN  UpdateWith("POST /ads/{ad_id}/toggle", ad_id, StatusUpdate(new_status))
    /\ UNCHANGED <<qr_history, oid, settings, adCalls, otpVars, engineVars>>

\* DELETE /ads/{ad_id}
DeleteAd ==
    /\ \E ad_id \in 1..MaxAds :
          IF FindOneAd(ads, ad_id) = {}
          THEN /\ http' = AdsResponse("DELETE /ads/{ad_id}", NoQuery, 404, {})
               /\ UNCHANGED ads
          ELSE /\ ads' = DeleteOneAd(ads, ad_id)
               /\ http' = AdsResponse("DELETE /ads/{ad_id}", NoQuery, 200, {})
    /\ UNCHANGED <<qr_history, oid, settings, adCalls, otpVars, engineVars>>

\* POST /ads/toggle: AdminService.set_ads_enabled(body.enabled), an upsert
ToggleAds ==
    /\ \E enabled \in BOOLEAN :
          /\ settings' = [stored |-> TRUE, ads_enabled |-> enabled]
          /\ http' = AdsResponse("POST /ads/toggle", NoQuery, 200, {})
    /\ UNCHANGED <<qr_history, oid, ads, adCalls, otpVars, engineVars>>

\* GET /ads (to_list(length=100) cuts nothing off within MaxAds)
ListAds ==
    /\ \E placement \in PlacementQueries :
          http' = AdsResponse("GET /ads", placement, 200,
                     IF ~IsAdsEnabled(settings) THEN {}
                     ELSE {SerializeAd(a) : a \in GetAllAds(ads, placement, TRUE)})
    /\ settings' = GetSettings(settings)
    /\ UNCHANGED <<qr_history, oid, ads, adCalls, otpVars, engineVars>>

NextAds ==
    \/ \E c \in AdCallers : CreateAdFind(c) \/ CreateAdInsert(c)
    \/ UpdateAd \/ SetAdStatus \/ ToggleAdStatus \/ DeleteAd
    \/ ToggleAds \/ ListAds

SpecAds == InitAds /\ [][NextAds]_vars

-----------------------------------------------------------------------------
(* The one-time passwords: routers/auth.py, services/auth_service.py       *)

\* minutes a run lasts
MaxMinutes == 12

Emails == {"a@x.io", "b@x.io"}

\* two of the strings generate_otp draws, and one that it does not
Otps == {"135790", "246801"}
OtpsTried == Otps \cup {"000000"}

\* save_otp: the upsert of {otp, created_at} under the email
SaveOtp(collection, email, otp, utcnow) ==
    {r \in collection : r.email # email}
        \cup {[email |-> email, otp |-> otp, created_at |-> utcnow]}

\* verify_otp: `record and record["otp"] == otp`; created_at is not read and the
\* record stays
VerifyOtp(collection, email, otp) ==
    \E record \in collection : record.email = email /\ record.otp = otp

\* the response of an auth handler
AuthResponse(endpoint, email, otp, status) ==
    [NoHttp EXCEPT !.endpoint = endpoint, !.pc = "responded", !.status = status,
                   !.email = email, !.otp = otp]

InitOtp ==
    /\ EngineIdle
    /\ WebIdle

\* POST /auth/send-otp: the OTP is saved, then mailed (500 when the mail fails)
SendOtp ==
    /\ \E email \in Emails : \E otp \in Otps : \E mailed \in BOOLEAN :
          /\ otps' = SaveOtp(otps, email, otp, now)
          /\ http' = AuthResponse("POST /auth/send-otp", email, "",
                                  IF mailed THEN 200 ELSE 500)
    /\ UNCHANGED <<qr_history, oid, adsVars, now, engineVars>>

\* POST /auth/verify-otp and POST /auth/login, up to the verify_otp check
VerifyOtpRequest ==
    /\ \E endpoint \in {"POST /auth/verify-otp", "POST /auth/login"} :
       \E email \in Emails : \E otp \in OtpsTried :
          http' = AuthResponse(endpoint, email, otp,
                               IF VerifyOtp(otps, email, otp) THEN 200 ELSE 400)
    /\ UNCHANGED <<qr_history, oid, adsVars, otpVars, engineVars>>

\* a minute passes
Tick ==
    /\ now < MaxMinutes
    /\ now' = now + 1
    /\ UNCHANGED <<historyVars, adsVars, otps, engineVars>>

NextOtp == SendOtp \/ VerifyOtpRequest \/ Tick

SpecOtp == InitOtp /\ [][NextOtp]_vars

-----------------------------------------------------------------------------
(* Logo embedding properties *)

\* C5: whatever logo_size is requested, the logo as composited is at most 40% of
\* the shorter image side in width and in height.
C5_LogoSizeClamp ==
    (embedded.done /\ embedded.img.overlay # NoOverlay) =>
        LET o == embedded.img.overlay[1]
            shorter == Min(embedded.img.w, embedded.img.h)
        IN  /\ 100 * o.logo_w <= 40 * shorter
            /\ 100 * o.logo_h <= 40 * shorter

\* logo_size = 0.9 on a version-1 symbol (290 px) with a 300 x 300 logo
C5_Witness ==
    /\ embedded.done
    /\ embedArgs.logo_size = 90
    /\ embedArgs.logo.w = 300 /\ embedArgs.logo.h = 300
    /\ embedArgs.qr_img.w = 290
    /\ embedded.img.overlay # NoOverlay
    /\ embedded.img.overlay[1].logo_w = 116

\* the logo was pasted
Pasted == embedded.done /\ embedded.img.overlay # NoOverlay

\* the rectangle a padded logo of size w x h covers when centred on a W x H image,
\* as left, top, right and bottom edges (right and bottom excluded)
CentredBox(W, H, w, h) ==
    LET left == (W - w) \div 2
        top == (H - h) \div 2
    IN  [left |-> left, top |-> top, right |-> left + w, bottom |-> top + h]

\* points of a W x H image that lie outside the box: the corners of the image and
\* the points next to the edges and corners of the box
PointsOutside(W, H, b) ==
    { pt \in { <<0, 0>>, <<W - 1, 0>>, <<0, H - 1>>, <<W - 1, H - 1>>,
               <<b.left - 1, b.top>>, <<b.left, b.top - 1>>, <<b.left - 1, b.top - 1>>,
               <<b.right, b.top>>, <<b.right - 1, b.top - 1>>,
               <<b.left - 1, b.bottom - 1>>, <<b.left, b.bottom>>,
               <<b.right, b.bottom - 1>>, <<b.right - 1, b.bottom>>,
               <<b.right, b.bottom>> } :
        /\ 0 <= pt[1] /\ pt[1] < W
        /\ 0 <= pt[2] /\ pt[2] < H }

\* C18: once the logo is pasted, every pixel outside the rectangle the padded logo
\* covers, centred on the image, has the colour it had before, fully opaque; the
\* size and the symbol drawn are unchanged.
C18_OverlayFrame ==
    Pasted =>
        LET before == embedArgs.qr_img
            after == embedded.img
            o == after.overlay[1]
            box == CentredBox(before.w, before.h, o.logo_w + 20, o.logo_h + 20)
        IN  /\ after.w = before.w /\ after.h = before.h /\ after.base = before.base
            /\ \A pt \in PointsOutside(before.w, before.h, box) : \A dark \in BOOLEAN :
                   PixelAt(after, pt[1], pt[2], dark) =
                       Opaque(PixelAt(before, pt[1], pt[2], dark))

\* a 300 x 300 logo on a version-1 symbol: the pad is white at its corner, where a
\* dark module was, and the pixel next to that corner is still dark
C18_Witness ==
    /\ Pasted
    /\ embedArgs.qr_img.w = 290
    /\ embedArgs.logo.w = 300 /\ embedArgs.logo.h = 300
    /\ embedArgs.logo_size = 30
    /\ LET o == embedded.img.overlay[1]
       IN  /\ PixelAt(embedded.img, o.x, o.y, TRUE) = WhitePixel
           /\ PixelAt(embedArgs.qr_img, o.x, o.y, TRUE) = <<0, 0, 0>>
           /\ PixelAt(embedded.img, o.x - 1, o.y, TRUE) = <<0, 0, 0, 255>>

\* C20: the padded logo is pasted with its top-left corner at
\* (floor((W - w) / 2), floor((H - h) / 2)): the left and right margins differ by
\* at most one pixel, the right one being the larger, and so do the top and bottom.
C20_LogoCentering ==
    Pasted =>
        LET W == embedded.img.w
            H == embedded.img.h
            o == embedded.img.overlay[1]
            right == W - (o.x + o.w)
            bottom == H - (o.y + o.h)
        IN  /\ o.w = o.logo_w + 20 /\ o.h = o.logo_h + 20
            /\ 2 * o.x <= W - o.w /\ W - o.w < 2 * o.x + 2
            /\ 2 * o.y <= H - o.h /\ H - o.h < 2 * o.y + 2
            /\ right - o.x \in {0, 1}
            /\ bottom - o.y \in {0, 1}

\* a 7 x 7 logo, 27 x 27 with its pad, on a 290-pixel image: margins 131 and 132
C20_Witness ==
    /\ Pasted
    /\ embedded.img.w = 290
    /\ embedded.img.overlay[1].w = 27 /\ embedded.img.overlay[1].h = 27
    /\ embedded.img.overlay[1].x = 131 /\ embedded.img.overlay[1].y = 131
    /\ embedded.img.w - (embedded.img.overlay[1].x + embedded.img.overlay[1].w) = 132

\* the clamped ratio, in hundredths, and the bound derived from it
ClampedRatio == IF embedArgs.logo_size < 10 THEN 10
                ELSE IF embedArgs.logo_size > 40 THEN 40 ELSE embedArgs.logo_size
Bound == (Min(embedArgs.qr_img.w, embedArgs.qr_img.h) * ClampedRatio) \div 100

\* C21: the resized logo is at most bound = floor(min(W, H) * r) wide and high, r
\* being logo_size clamped to [0.1, 0.4], and at most as wide and as high as the
\* decoded logo; a logo within the bound keeps its size; a logo that is reduced has
\* one side equal to the bound and the other within one pixel of the side that
\* keeps the aspect ratio (or 1 pixel when that side would vanish).
C21_NeverEnlarges ==
    Pasted =>
        LET o == embedded.img.overlay[1]
            w == embedArgs.logo.w
            h == embedArgs.logo.h
        IN  /\ o.logo_w >= 1 /\ o.logo_h >= 1
            /\ o.logo_w <= Bound /\ o.logo_h <= Bound
            /\ o.logo_w <= w /\ o.logo_h <= h
            /\ (w <= Bound /\ h <= Bound) => (o.logo_w = w /\ o.logo_h = h)
            /\ (w > Bound \/ h > Bound) =>
                   \/ o.logo_h = Bound /\ (Abs(o.logo_w * h - Bound * w) < h \/ o.logo_w = 1)
                   \/ o.logo_w = Bound /\ (Abs(o.logo_h * w - Bound * h) < w \/ o.logo_h = 1)

\* a 300 x 117 logo on a version-1 symbol at 0.3: bound 87, resized to 87 x 34
C21_Witness ==
    /\ Pasted
    /\ embedArgs.qr_img.w = 290 /\ embedArgs.logo_size = 30
    /\ embedArgs.logo.w = 300 /\ embedArgs.logo.h = 117
    /\ embedded.img.overlay[1].logo_w = 87
    /\ embedded.img.overlay[1].logo_h = 34

\* C22: the overlay is the resized logo with 10 pixels added on each of its four
\* sides, 20 in width and in height; that border is opaque white over dark and over
\* light modules, whatever the colours of the symbol, and the logo starts right
\* after it.
C22_LogoPadding ==
    Pasted =>
        LET o == embedded.img.overlay[1]
            image == embedded.img
        IN  /\ o.w = o.logo_w + 20 /\ o.h = o.logo_h + 20
            /\ \A dark \in BOOLEAN :
                  \A pt \in { <<o.x, o.y>>, <<o.x + 9, o.y + 9>>, <<o.x + o.w - 1, o.y>>,
                               <<o.x, o.y + o.h - 1>>, <<o.x + o.w - 10, o.y + o.h - 10>>,
                               <<o.x + o.w - 1, o.y + o.h - 1>>, <<o.x + 10, o.y + 9>>,
                               <<o.x + 9, o.y + 10>> } :
                      PixelAt(image, pt[1], pt[2], dark) = <<255, 255, 255, 255>>
            /\ \A dark \in BOOLEAN :
                  \A pt \in { <<o.x + 10, o.y + 10>>, <<o.x + o.w - 11, o.y + o.h - 11>> } :
                      PixelAt(image, pt[1], pt[2], dark) = <<200, 30, 30, 255>>

\* on a yellow-on-navy symbol the pad is white where navy was
C22_Witness ==
    /\ Pasted
    /\ embedArgs.qr_img.base.back = <<Num(0), Num(0), Num(128)>>
    /\ embedArgs.logo.w = 30 /\ embedArgs.logo.h = 7
    /\ embedded.img.overlay[1].w = 50 /\ embedded.img.overlay[1].h = 27
    /\ PixelAt(embedArgs.qr_img, embedded.img.overlay[1].x, embedded.img.overlay[1].y, FALSE)
           = <<0, 0, 128>>
    /\ PixelAt(embedded.img, embedded.img.overlay[1].x, embedded.img.overlay[1].y, FALSE)
           = <<255, 255, 255, 255>>

\* C25: for box_size 10 and border 4, whatever the version, the logo and logo_size,
\* the padded logo is pasted at a position that is positive in both coordinates and
\* its rectangle ends before the right and bottom edges of the image.
C25_OverlayInsideImage ==
    Pasted =>
        LET o == embedded.img.overlay[1]
        IN  /\ o.x > 0 /\ o.y > 0
            /\ o.x + o.w < embedded.img.w
            /\ o.y + o.h < embedded.img.h

\* the largest overlay on the smallest symbol: 136 of 290 pixels, 77 left on each side
C25_Witness ==
    /\ Pasted
    /\ embedArgs.logo_size = 250
    /\ embedArgs.logo.w = MaxLogoDim /\ embedArgs.logo.h = MaxLogoDim
    /\ embedded.img.w = 290
    /\ embedded.img.overlay[1].w = 136
    /\ embedded.img.overlay[1].x = 77

-----------------------------------------------------------------------------
(* Colour resolver properties *)

AllHex(d) == \A i \in 1..Len(d) : d[i] \in HexDigits

\* the digits of a string made of an optional single leading '#' and hex digits
HexBody(s) == IF s # <<>> /\ Head(s) = "#" THEN Tail(s) ELSE s
IsHexString(s) == AllHex(HexBody(s)) /\ Lower(s) \notin ColorNames

Byte(hi, lo) == Num(16 * DigitValue(hi) + DigitValue(lo))

ExpectedHex(d) ==
    IF Len(d) = 3 THEN Return(<<Byte(d[1], d[1]), Byte(d[2], d[2]), Byte(d[3], d[3])>>)
    ELSE IF Len(d) = 6 THEN Return(<<Byte(d[1], d[2]), Byte(d[3], d[4]), Byte(d[5], d[6])>>)
    ELSE Raise

White == <<Num(255), Num(255), Num(255)>>

\* C6: a string of 3 hex digits resolves to the triple with each digit duplicated, a
\* string of 6 hex digits to its three bytes, with or without one leading '#'; a hex
\* string of any other length raises; '#fff', '#ffffff' and 'white' all give white.
C6_HexResolution ==
    (parsed.done /\ color.type = "str") =>
        /\ IsHexString(color.s) =>
               /\ parsed.ok = ExpectedHex(HexBody(color.s)).ok
               /\ parsed.rgb = ExpectedHex(HexBody(color.s)).rgb
        /\ color.s \in { <<"#","f","f","f">>, <<"#","f","f","f","f","f","f">>,
                         <<"w","h","i","t","e">> } =>
               parsed.ok /\ parsed.rgb = White

C6_Witness ==
    /\ parsed.done
    /\ color = Str(<<"#","1","f","1">>)
    /\ parsed.ok
    /\ parsed.rgb = <<Num(17), Num(255), Num(17)>>

IsValidTriple(t) ==
    Len(t) = 3 /\ \A i \in 1..3 : IsInteger(t[i]) /\ Num(0) <= t[i] /\ t[i] <= Num(255)

\* C7: a tuple or list is accepted only if it has 3 channels, each an integer in
\* [0,255], and is then returned as that triple; any other sequence raises.
C7_ExplicitTriples ==
    (parsed.done /\ color.type \in {"tuple", "list"}) =>
        /\ parsed.ok <=> IsValidTriple(color.t)
        /\ parsed.ok => parsed.rgb = color.t

-----------------------------------------------------------------------------
(* generate_qr_code properties *)

IsPrefix(a, b) == Len(a) <= Len(b) /\ SubSeq(b, 1, Len(a)) = a

\* the stages entered, among the six the design names
IsNamedStage(st) ==
    st \in {"Validate", "Build", "ResolveColors", "Render", "Embed", "Serialize"}
NamedStages == SelectSeq(stages, IsNamedStage)

InvalidPayload(r) == r.url.type # "str" \/ r.url.len = 0
ColorRejected(r) == ~ParseColor(r.fill_color).ok \/ ~ParseColor(r.back_color).ok
TooLong(r) == r.url.type = "str" /\ r.url.len > 2953
LogoSupplied(r) == r.logo.kind \in {"bad", "image"}
ReturnedNone == result.how = "returned" /\ ~result.ok /\ result.bytes = <<>>

\* C1 as stated: the stages run in the order Validate, Build, ResolveColors,
\* Render, optional Embed, Serialize (colours resolved after the matrix is built).
C1_StageOrderAsStated ==
    \/ IsPrefix(NamedStages,
                <<"Validate", "Build", "ResolveColors", "Render", "Embed", "Serialize">>)
    \/ IsPrefix(NamedStages, <<"Validate", "Build", "ResolveColors", "Render", "Serialize">>)

\* C1 amended: the stages run in the order Validate, ResolveColors, Build, Render,
\* optional Embed, Serialize, each entered once and only after the one before it;
\* Embed is entered exactly when a logo is given; a call that returns bytes has
\* gone through all of them.
C1_StageOrder ==
    LET withEmbed == <<"Validate", "ResolveColors", "Build", "Render", "Embed", "Serialize">>
        noEmbed == <<"Validate", "ResolveColors", "Build", "Render", "Serialize">>
        order == IF LogoSupplied(req) THEN withEmbed ELSE noEmbed
    IN  /\ IsPrefix(NamedStages, order)
        /\ (pc = "done" /\ result.ok) => NamedStages = order
        /\ pc \in {"Build", "Render", "Embed", "Serialize"} =>
               (fill_color.type = "tuple" /\ back_color.type = "tuple")

C1_Witness ==
    /\ pc = "done"
    /\ result.ok
    /\ NamedStages = <<"Validate", "ResolveColors", "Build", "Render", "Embed", "Serialize">>

\* C2: when validation fails (payload or a colour) Build, Render, Embed and
\* Serialize are never entered; when Build fails Render, Embed and Serialize are
\* never entered; either way the call returns None.
C2_ShortCircuit ==
    LET entered == {stages[i] : i \in 1..Len(stages)}
    IN  /\ (InvalidPayload(req) \/ ColorRejected(req)) =>
               /\ entered \cap {"Build", "Render", "Embed", "Serialize"} = {}
               /\ pc = "done" => ReturnedNone
        /\ TooLong(req) =>
               /\ entered \cap {"Render", "Embed", "Serialize"} = {}
               /\ pc = "done" => ReturnedNone

C2_Witness ==
    /\ pc = "done"
    /\ ~InvalidPayload(req)
    /\ req.fill_color = Str(<<"#","1","2">>)
    /\ stages = <<"Validate", "ResolveColors">>
    /\ ReturnedNone

\* a stage that the call cannot survive fails on this request
FatalFailure(r) ==
    \/ InvalidPayload(r)
    \/ ColorRejected(r)
    \/ TooLong(r)
    \/ r.fault \in {"Render", "Serialize"}
    \/ r.format \notin {"PNG", "png", "JPEG", "jpeg"}

\* the bytes are the whole of a rendered image of the symbol, in the asked format
CompleteBytes ==
    /\ Len(result.bytes) = 1
    /\ result.bytes[1].format \in {"PNG", "JPEG"}
    /\ result.bytes[1].image.base = img.base
    /\ result.bytes[1].image.overlay = img.overlay
    /\ result.bytes[1].image.w = img.w /\ result.bytes[1].image.h = img.h
    /\ img.base.version >= 1
    /\ img.base.drawer # ""
    /\ img.w = ModuleCount(img.base.version) * 10

\* C3: the call returns either the complete bytes of a fully rendered image or
\* None: no exception escapes, a failure leaves no bytes, and bytes are returned
\* only when no stage failed fatally.
C3_AllOrNothing ==
    pc = "done" =>
        /\ result.how = "returned"
        /\ result.ok => (CompleteBytes /\ ~FatalFailure(req))
        /\ ~result.ok => result.bytes = <<>>
        /\ FatalFailure(req) => ReturnedNone

C3_Witness ==
    /\ pc = "done"
    /\ req.fault = "Serialize"
    /\ Len(stages) = 7
    /\ img.overlay # NoOverlay
    /\ ReturnedNone

\* C4: with a logo supplied and error_correction 'L' requested, the symbol is
\* built at level H.
C4_AutoEscalation ==
    (LogoSupplied(req) /\ req.error_correction = "L") =>
        /\ qr # NoQr => qr.ec = "H"
        /\ img # NoImage => img.base.ec = "H"

C4_Witness ==
    /\ pc = "done"
    /\ result.ok
    /\ req.logo.kind = "image"
    /\ req.error_correction = "L"
    /\ result.bytes[1].image.base.ec = "H"

\* a named colour, 3 or 6 hex digits with or without one leading '#', or a
\* triple of integers in [0,255]
ValidColorSpec(c) ==
    \/ c.type = "str" /\ Lower(c.s) \in ColorNames
    \/ c.type = "str" /\ AllHex(HexBody(c.s)) /\ Len(HexBody(c.s)) \in {3, 6}
    \/ c.type \in {"tuple", "list"} /\ IsValidTriple(c.t)

\* C8: a request whose fill_color or back_color is not a valid colour returns
\* None, never an image.
C8_NoColorCoercion ==
    (pc = "done" /\ (~ValidColorSpec(req.fill_color) \/ ~ValidColorSpec(req.back_color))) =>
        ReturnedNone

\* C9: an empty or non-string payload makes the call return None whatever the
\* other options are, and never gets past the payload check; a non-empty string
\* passes the check and the call goes on to resolve the colours.
C9_PayloadValidation ==
    /\ InvalidPayload(req) =>
           /\ IsPrefix(stages, <<"Validate">>)
           /\ pc \in {"Validate", "done"}
           /\ pc = "done" => ReturnedNone
    /\ (~InvalidPayload(req) /\ stages # <<>>) =>
           (pc = "ResolveColors" \/ (Len(stages) >= 2 /\ stages[2] = "ResolveColors"))

C9_Witness ==
    /\ pc = "done"
    /\ req.url = [type |-> "int", len |-> 5]
    /\ req.logo.kind = "image"
    /\ stages = <<"Validate">>
    /\ ReturnedNone

\* C10: a pattern that is none of the five names does not fail the call, which
\* returns exactly what it returns for 'square' with the other options equal.
C10_PatternFallback ==
    (pc = "done" /\
     req.pattern \notin {"square", "rounded", "dots", "vertical_bars", "horizontal_bars"}) =>
        result = GenerateQrCode(service, [req EXCEPT !.pattern = "square"])

C10_Witness ==
    /\ pc = "done"
    /\ req.pattern = "hexagon"
    /\ result.ok
    /\ result.bytes[1].image.base.drawer = "SquareModuleDrawer"

\* C11: with no logo supplied, an error_correction token that is none of L, M, Q, H
\* does not fail the call: the symbol is built at level L and the call returns
\* exactly what it returns for 'L' with the other options equal.
C11_ErrorCorrectionFallback ==
    (~LogoSupplied(req) /\ req.error_correction \notin {"L", "M", "Q", "H"}) =>
        /\ qr # NoQr => qr.ec = "L"
        /\ pc \in {"Render", "Embed", "Serialize"} => qr # NoQr
        /\ pc = "done" => result = GenerateQrCode(service, [req EXCEPT !.error_correction = "L"])

\* the lower-case token 'h' is not a level: the symbol is built at L, not H
C11_Witness ==
    /\ pc = "done"
    /\ req.error_correction = "h"
    /\ ~LogoSupplied(req)
    /\ result.ok
    /\ result.bytes[1].image.base.ec = "L"

\* the image the Render stage produced for this call
Rendered == MakeImage(qr, ModuleDrawer(pattern).drawer, fill_color.t, back_color.t)

\* the same picture: same size, same symbol drawn the same way, same overlay
SamePixels(a, b) == a.w = b.w /\ a.h = b.h /\ a.base = b.base /\ a.overlay = b.overlay

\* the logo is supplied but does not end up on the image
LogoDropped(r) ==
    \/ r.logo.kind = "bad"
    \/ r.logo.kind = "image" /\ r.fault \in {"Embed", "Paste"}

\* C12: a request that is otherwise valid and whose logo does not decode, or for
\* which a step of _embed_logo raises, succeeds; the image serialized is the
\* rendered symbol as it was before the Embed stage, with no overlay (for a logo
\* that does not decode, the very same image).
C12_LogoFailureNonFatal ==
    (pc = "done" /\ LogoDropped(req) /\ ~FatalFailure(req)) =>
        /\ result.ok
        /\ "Embed" \in {stages[i] : i \in 1..Len(stages)}
        /\ result.bytes[1].image.overlay = NoOverlay
        /\ SamePixels(result.bytes[1].image, Rendered)
        /\ req.logo.kind = "bad" => result.bytes[1].image = Rendered

C12_Witness ==
    /\ pc = "done"
    /\ req.logo.kind = "bad"
    /\ Len(stages) = 7
    /\ stages[6] = "Embed"
    /\ result.ok
    /\ result.bytes[1].image = Rendered

Entered(stage) == stage \in {stages[i] : i \in 1..Len(stages)}

\* C13: the symbol built is the smallest version whose capacity at the level used
\* holds the payload: no smaller version holds it, a payload too long for version 1
\* is built in a larger version, and Build fails exactly when not even version 40
\* holds it, in which case the call returns None.
C13_BestFitVersion ==
    /\ qr # NoQr =>
           /\ qr.version \in 1..40
           /\ qr.data = req.url.len /\ qr.ec = error_correction
           /\ Capacity(qr.version, qr.ec) >= qr.data
           /\ \A v \in 1..10 : v < qr.version => Capacity(v, qr.ec) < qr.data
    /\ (Entered("Build") /\ error_correction \in {"L", "M", "Q", "H"}) =>
           /\ (qr # NoQr) <=> (req.url.len <= Capacity(40, error_correction))
           /\ qr = NoQr => (pc = "done" /\ ReturnedNone /\ ~Entered("Render"))

\* 18 bytes do not fit version 1 at level L (17 bytes): version 2 is built
C13_Witness ==
    /\ pc = "done"
    /\ result.ok
    /\ req.url.len = 18
    /\ qr.ec = "L"
    /\ qr.version = 2

BadLogo == [kind |-> "bad", id |-> "", w |-> 0, h |-> 0]

\* C14: the image of a successful call is square, its side being the modules per
\* side of the symbol built (17 + 4 * version) plus the border on both sides, times
\* box_size; embedding a logo leaves that size as it is.
C14_OutputDimensions ==
    (pc = "done" /\ result.ok) =>
        LET image == result.bytes[1].image
            unembedded == GenerateQrCode(service, [req EXCEPT !.logo = BadLogo])
        IN  /\ image.w = (17 + 4 * qr.version + 2 * border) * box_size
            /\ image.h = image.w
            /\ image.w = Rendered.w /\ image.h = Rendered.h
            /\ req.logo.kind = "image" =>
                   /\ unembedded.ok
                   /\ unembedded.bytes[1].image.w = image.w
                   /\ unembedded.bytes[1].image.h = image.h

\* 18 bytes at level H with a logo embedded: version 3, 37 modules, 370 pixels
C14_Witness ==
    /\ pc = "done"
    /\ result.ok
    /\ result.bytes[1].image.overlay # NoOverlay
    /\ qr.version = 3
    /\ result.bytes[1].image.w = 370 /\ result.bytes[1].image.h = 370

\* points of an image: a corner, the centre, and the corner of its overlay if any
SamplePoints(image) ==
    { <<0, 0>>, <<image.w \div 2, image.h \div 2>> } \cup
    { <<image.overlay[i].x, image.overlay[i].y>> : i \in 1..Len(image.overlay) }

\* out is the RGBA pixel p blended over white through its alpha: white where p is
\* fully transparent, the colour of p where it is fully opaque, and within one level
\* of (alpha * colour + (255 - alpha) * 255) / 255 in between
BlendedOverWhite(p, out) ==
    /\ Len(out) = 3
    /\ \A i \in 1..3 :
          /\ p[4] = 0 => out[i] = 255
          /\ p[4] = 255 => out[i] = p[i]
          /\ Abs(255 * out[i] - (p[4] * p[i] + (255 - p[4]) * 255)) <= 255

\* C17: when JPEG is requested and the image is RGBA after the Embed stage, the call
\* does not fail on that account and the image saved is an RGB image of the same
\* size, each pixel being the RGBA pixel alpha-blended over white.
C17_FormatConversion ==
    (pc = "done" /\ req.format \in {"JPEG", "jpeg"} /\ img.mode = "RGBA" /\
     req.fault # "Serialize") =>
        /\ result.ok
        /\ result.bytes[1].format = "JPEG"
        /\ result.bytes[1].image.mode = "RGB"
        /\ result.bytes[1].image.w = img.w /\ result.bytes[1].image.h = img.h
        /\ \A pt \in SamplePoints(img) : \A dark \in BOOLEAN :
               BlendedOverWhite(PixelAt(img, pt[1], pt[2], dark),
                                PixelAt(result.bytes[1].image, pt[1], pt[2], dark))

\* a half-transparent logo leaves the centre of the RGBA image partly transparent
\* (alpha 207); as JPEG that pixel is blended with white
C17_Witness ==
    /\ pc = "done"
    /\ req.format = "jpeg"
    /\ req.logo.id = "glass"
    /\ result.ok
    /\ img.mode = "RGBA"
    /\ PixelAt(img, img.w \div 2, img.h \div 2, TRUE)[4] = 207
    /\ PixelAt(result.bytes[1].image, img.w \div 2, img.h \div 2, TRUE) #
           DropAlpha(PixelAt(img, img.w \div 2, img.h \div 2, TRUE))

\* C23: for 'JPG' or 'JPEG' in any letter case, with a logo embedded (RGBA image),
\* the call flattens the image to RGB and returns the bytes of the flattened image,
\* not None.
C23_JpgAlias ==
    (pc = "done" /\ req.format \in {"JPG", "jpg", "JPEG", "jpeg"} /\ img.mode = "RGBA" /\
     img.overlay # NoOverlay /\ req.fault # "Serialize") =>
        /\ result.ok
        /\ result.bytes # <<>>
        /\ result.bytes[1].image.mode = "RGB"

\* C24: with a non-empty logo string and level L after the fallback (requested 'L' or
\* a token that is no level) the symbol is built at H, whether or not the logo
\* decodes and is drawn; a requested M, Q or H is the level built, with or
\* without a logo.
C24_EscalationByPresence ==
    qr # NoQr =>
        /\ (req.logo.kind \in {"bad", "image"} /\ req.error_correction \notin {"M", "Q", "H"})
               => qr.ec = "H"
        /\ req.error_correction \in {"M", "Q", "H"} => qr.ec = req.error_correction
        /\ (req.logo.kind \in {"none", "empty"} /\ req.error_correction \notin {"M", "Q", "H"})
               => qr.ec = "L"

\* an unknown token and a logo that does not decode: built at H, nothing drawn
C24_Witness ==
    /\ pc = "done"
    /\ result.ok
    /\ req.error_correction = "X"
    /\ req.logo.kind = "bad"
    /\ qr.ec = "H"
    /\ result.bytes[1].image.base.ec = "H"
    /\ result.bytes[1].image.overlay = NoOverlay

-----------------------------------------------------------------------------
(* generate_qr_code_base64 properties *)

\* the 6-bit value of a character of the alphabet
B64Value(ch) == (CHOOSE i \in 1..64 : B64Chars[i] = ch) - 1

IsB64Char(ch) == \E i \in 1..64 : B64Chars[i] = ch

\* text that base64.b64decode accepts: groups of 4 characters of the alphabet, the
\* last group possibly ending in '=' or '=='
Decodable(t) ==
    /\ Len(t) % 4 = 0
    /\ \A i \in 1..Len(t) :
          \/ IsB64Char(t[i])
          \/ t[i] = "=" /\ i > 2 /\ i >= Len(t) - 1 /\ t[Len(t)] = "="

RECURSIVE B64Decode(_)
B64Decode(t) ==
    IF t = <<>> THEN <<>>
    ELSE LET a == B64Value(t[1])
             b == B64Value(t[2])
         IN  IF t[3] = "=" THEN << (a * 64 + b) \div 16 >>
             ELSE IF t[4] = "="
             THEN LET n == ((a * 64 + b) * 64 + B64Value(t[3])) \div 4
                  IN  << n \div 256, n % 256 >>
             ELSE LET n == ((a * 64 + b) * 64 + B64Value(t[3])) * 64 + B64Value(t[4])
                  IN  << n \div 65536, (n \div 256) % 256, n % 256 >>
                      \o B64Decode(SubSeq(t, 5, Len(t)))

\* C19: generate_qr_code_base64 returns None exactly when generate_qr_code returns
\* None for the same arguments; otherwise it returns text that base64 decoding
\* turns back into the very bytes generate_qr_code returned.
C19_Base64Wrapper ==
    encoded.done =>
        /\ encoded.none <=> ~GenerateQrCode(service, b64Args.req).ok
        /\ encoded.none <=> img_bytes.none
        /\ ~encoded.none =>
               /\ img_bytes.bytes = b64Args.content
               /\ Decodable(encoded.text)
               /\ B64Decode(encoded.text) = img_bytes.bytes

\* the two bytes 255, 77 give '/00=' and decode back
C19_Witness ==
    /\ encoded.done
    /\ ~encoded.none
    /\ img_bytes.bytes = <<255, 77>>
    /\ encoded.text = <<"/", "0", "0", "=">>

-----------------------------------------------------------------------------
(* Properties of calls running at once *)

\* the frame of a call that runs alone, after its first n stages
RECURSIVE RunSteps(_, _, _, _)
RunSteps(self, r, f, n) ==
    IF n = 0 \/ f.pc = "done" THEN f ELSE RunSteps(self, r, StageStep(self, r, f), n - 1)

Alone(c) == RunSteps(QRCodeService, calls[c].req, InitFrame(calls[c].req), Len(calls[c].f.stages))

Finished(c) == calls[c].f.pc = "done"

C16_NoSharedState ==
    /\ [](\A c \in Callers :
             /\ calls[c].f = Alone(c)
             /\ Finished(c) => calls[c].f.result = GenerateQrCode(QRCodeService, calls[c].req))
    /\ [][/\ service' = service
          /\ \A c, d \in Callers : (calls'[c] # calls[c] /\ d # c) => calls'[d] = calls[d]]_vars

\* a PNG call with a logo and a JPEG call without one, run in some interleaving,
\* both finished
C16_Witness ==
    /\ Finished(1) /\ Finished(2)
    /\ calls[1].req # calls[2].req
    /\ calls[1].f.result.ok /\ calls[1].f.result.bytes[1].image.overlay # NoOverlay
    /\ calls[2].f.result.ok /\ calls[2].f.result.bytes[1].image.overlay = NoOverlay
    /\ calls[1].f.result.bytes[1].format = "PNG"
    /\ calls[2].f.result.bytes[1].format = "JPEG"

-----------------------------------------------------------------------------
(* Properties of the generate endpoints and the history *)

IsGenerate(h) == h.endpoint \in Endpoints

HistoryGrows == qr_history' \ qr_history # {}

\* C26: in POST /generate, POST /generate/image and GET /generate/{url} a history
\* entry is written only after generation returned a non-empty result and only
\* for an authenticated user (and it is that user's entry for that url); when
\* generation fails the response is 500 and no entry is written; an anonymous
\* request never writes an entry.
C26_HistoryLoggingOrder ==
    [][ /\ HistoryGrows =>
              /\ IsGenerate(http) /\ http.pc = "log"
              /\ http.truthy /\ ~http.user.none
              /\ http'.pc = "responded" /\ http'.status = 200
              /\ \A e \in qr_history' \ qr_history :
                    e.user_id = http.user.id /\ e.url = http.url
        /\ (http' # http /\ IsGenerate(http') /\ ~http'.truthy) =>
              /\ http'.pc = "responded" /\ http'.status = 500
              /\ qr_history' = qr_history
        /\ (http' # http /\ IsGenerate(http') /\ http'.user.none) =>
              /\ http'.pc = "responded"
              /\ qr_history' = qr_history ]_vars

\* an authenticated POST /generate/image that succeeded: its entry is in the
\* history when the response is sent
C26_Witness ==
    /\ http.endpoint = "POST /generate/image"
    /\ http.pc = "responded" /\ http.status = 200
    /\ http.user = User("u1")
    /\ \E e \in qr_history : e._id = http.history_id /\ e.user_id = "u1"

\* C30: every history entry written with a base_url carries a qr_image_url, and
\* for as long as the entry is stored GET /history/{history_id}/image answers
\* that id with the image (200), not with 404.
C30_HistoryImageServed ==
    ( /\ http.endpoint = "GET /history/{history_id}/image"
      /\ http.pc = "responded"
      /\ \E e \in qr_history : e._id = http.history_id /\ "qr_image_url" \in e.keys )
    => http.status = 200

-----------------------------------------------------------------------------
(* Properties of the advertisements *)

\* the stored ads a listing is to show: those of the placement asked for (all
\* of them when none is asked for) whose isActive is true
ActiveAdsOf(placement) ==
    { a \in ads :
        /\ (placement.given /\ placement.value # "") => a.placement = placement.value
        /\ a.isActive }

\* C27: whatever create, update, status, toggle and delete operations and
\* global toggles came before, GET /ads returns the empty list when ads are
\* globally disabled, and otherwise exactly the stored ads that match the
\* placement filter and whose isActive is true; never an ad with isActive false.
C27_ListsActiveAdsOnly ==
    http.endpoint = "GET /ads" =>
        /\ http.body = IF settings.ads_enabled
                       THEN {SerializeAd(a) : a \in ActiveAdsOf(http.query)}
                       ELSE {}
        /\ \A ad \in http.body : ad.isActive

\* C28: under every interleaving of concurrent create_ad calls, no two stored
\* ads have the same id.
C28_AdIdsUnique ==
    \A a, b \in ads : a.id = b.id => a._id = b._id

-----------------------------------------------------------------------------
(* Properties of the one-time passwords *)

\* "This OTP is valid for 10 minutes"
ValidMinutes == 10

\* C29: /auth/verify-otp and /auth/login accept an OTP only when it is the one
\* saved last for the email and was saved at most 10 minutes ago; after that
\* it is rejected, and an OTP replaced by a newer one no longer verifies.
C29_OtpValidTenMinutes ==
    [][ ( /\ http'.endpoint \in {"POST /auth/verify-otp", "POST /auth/login"}
          /\ http'.status = 200
          /\ otpVars' = otpVars )
        => \E record \in otps :
              /\ record.email = http'.email
              /\ record.otp = http'.otp
              /\ now - record.created_at <= ValidMinutes ]_vars

====
